---- MODULE Spec2Model ----
(***************************************************************************)
(* A model of the core of the Genius Invokation TCG simulator: the dice    *)
(* cost allocation (dgisim/src/dice.py), the effects and their execution   *)
(* (dgisim/src/effect/effect.py) and the End phase of the phase state      *)
(* machine (src/dgisim/phase/default/end_phase.py).                        *)
(***************************************************************************)
EXTENDS Integers, Sequences, FiniteSets, TLC

VARIABLES
    held,        \* dice: the ActualDice a cost is checked against (self)
    heldKeys,    \* dice: the insertion order of the keys of held._dice
    requirement, \* dice: the AbstractDice to pay
    pureIter,    \* dice: the iteration order of the frozenset _PURE_ELEMS
    answer,      \* dice: what basically_satisfy returned
    can,         \* dice: what loosely_satisfy returned
    dpc,         \* dice: "input" before the two calls, "done" after them;
                 \* pools: the player whose chosen action awaits its payment
    gs,          \* game: the current GameState snapshot
    fault,       \* game: the exception that ended the run, or NoFault
    last,        \* game: the driver's last call and what it returned
    ran          \* game: the scheduled End-phase effects executed so far

diceVars == <<held, heldKeys, requirement, pureIter, answer, can, dpc>>
gameVars == <<gs, fault, last, ran>>
vars == <<held, heldKeys, requirement, pureIter, answer, can, dpc, gs, fault, last,
          ran>>

---------------------------------------------------------------------------
(* Helpers *)

Min(a, b) == IF a < b THEN a ELSE b
Max(a, b) == IF a > b THEN a ELSE b

Range(s) == {s[i] : i \in 1..Len(s)}

RECURSIVE Reverse(_)
Reverse(s) == IF s = <<>> THEN <<>> ELSE Append(Reverse(Tail(s)), Head(s))

RECURSIVE SumOver(_, _)
\* sum(f[k] for k in S)
SumOver(f, S) ==
    IF S = {} THEN 0
    ELSE LET k == CHOOSE x \in S : TRUE IN f[k] + SumOver(f, S \ {k})

---------------------------------------------------------------------------
(* Dice: dgisim/src/dice.py *)

_PURE_ELEMS == {"PYRO", "HYDRO", "ANEMO", "ELECTRO", "DENDRO", "CRYO", "GEO"}

\* ActualDice._LEGAL_ELEMS
ActualElems == {"OMNI"} \cup _PURE_ELEMS

\* AbstractDice._LEGAL_ELEMS
AbstractElems == {"OMNI", "ANY"} \cup _PURE_ELEMS

\* ActualDice._LEGAL_ELEMS_ORDERED
_LEGAL_ELEMS_ORDERED ==
    <<"OMNI", "CRYO", "HYDRO", "PYRO", "ELECTRO", "GEO", "DENDRO", "ANEMO">>

\* Dice.__getitem__: self._dice.get(index, 0)
Get(dice, elem) == IF elem \in DOMAIN dice THEN dice[elem] ELSE 0

\* Dice.num_dice
num_dice(dice) == SumOver(dice, DOMAIN dice)

\* a legality check that accepts every dice
is_legalMut(dice, legal) == TRUE

\* Dice.is_legal with the legal set of the class: every count >= 0 and every
\* key a legal element
is_legal(dice, legal) ==
    /\ \A k \in DOMAIN dice : dice[k] >= 0
    /\ DOMAIN dice \subseteq legal

\* Dice.from_empty
from_empty(legal) == [k \in legal |-> 0]

\* Dice.__sub__ / __add__ on the key union (HashableDict arithmetic)
DiceSub(a, b) ==
    [k \in DOMAIN a \cup DOMAIN b |-> Get(a, k) - Get(b, k)]
DiceAdd(a, b) ==
    [k \in DOMAIN a \cup DOMAIN b |-> Get(a, k) + Get(b, k)]

\* Optional[ActualDice]
None == [some |-> FALSE, dice |-> from_empty(ActualElems)]
Some(dice) == [some |-> TRUE, dice |-> dice]

\* ActualDice._satisfy (requirement and self are legal)
_satisfy(self, req) ==
    LET pure_deducted == [e \in _PURE_ELEMS |-> Get(self, e) - Get(req, e)]
        short == [e \in _PURE_ELEMS |->
                    IF pure_deducted[e] < 0 THEN -pure_deducted[e] ELSE 0]
        omni_needed == SumOver(short, _PURE_ELEMS)
        omni_remained == Get(self, "OMNI") - omni_needed
        most_pure == CHOOSE m \in {pure_deducted[e] : e \in _PURE_ELEMS} :
                        \A e \in _PURE_ELEMS : pure_deducted[e] <= m
    IN  IF Get(self, "OMNI") < omni_needed THEN FALSE
        ELSE IF omni_remained + most_pure < Get(req, "OMNI") THEN FALSE
        ELSE TRUE

\* ActualDice.loosely_satisfy
loosely_satisfy(self, req) ==
    IF num_dice(self) < num_dice(req) THEN FALSE ELSE _satisfy(self, req)

\* ActualDice.just_satisfy
just_satisfy(self, req) ==
    IF num_dice(self) # num_dice(req) THEN FALSE ELSE _satisfy(self, req)

\* The elements a Dice iterates over (Dice.__iter__: count > 0), as a sequence
RECURSIVE Positive(_, _)
Positive(dice, keys) ==
    IF keys = <<>> THEN <<>>
    ELSE IF Get(dice, Head(keys)) > 0
         THEN <<Head(keys)>> \o Positive(dice, Tail(keys))
         ELSE Positive(dice, Tail(keys))

RECURSIVE PuresPassMut(_, _, _)
\* the pure pass without the shortfall: the cost is taken from the held dice
\* down to a negative count
PuresPassMut(st, pures, elems) ==
    IF elems = <<>> THEN st
    ELSE LET elem == Head(elems) IN
         PuresPassMut(
             [st EXCEPT !.answer[elem] = @ + pures[elem],
                        !.remaining[elem] = @ - pures[elem]],
             pures, Tail(elems))

RECURSIVE PuresPass(_, _, _)
\* basically_satisfy, lines 268-276: for elem in pures
PuresPass(st, pures, elems) ==
    IF elems = <<>> THEN st
    ELSE LET elem == Head(elems)
             have == Get(st.remaining, elem)
         IN  IF have < pures[elem]
             THEN PuresPass(
                    [st EXCEPT !.answer[elem] = @ + have,
                               !.omni_required = @ + (pures[elem] - have),
                               !.remaining[elem] = 0],
                    pures, Tail(elems))
             ELSE PuresPass(
                    [st EXCEPT !.answer[elem] = @ + pures[elem],
                               !.remaining[elem] = @ - pures[elem]],
                    pures, Tail(elems))

NoElem == "NONE"

RECURSIVE BestElemMut(_, _, _, _)
\* the search for the OMNI cost's kind that keeps the first kind it meets
BestElemMut(best, remaining, omni, elems) ==
    IF elems = <<>> THEN best
    ELSE IF Get(remaining, Head(elems)) > 0
         THEN [elem |-> Head(elems), count |-> Get(remaining, Head(elems))]
         ELSE BestElemMut(best, remaining, omni, Tail(elems))

RECURSIVE BestElem(_, _, _, _)
\* basically_satisfy, lines 280-289: for elem in list(_PURE_ELEMS)
BestElem(best, remaining, omni, elems) ==
    IF elems = <<>> THEN best
    ELSE LET elem == Head(elems)
             this_count == Get(remaining, elem)
         IN  IF best.count > omni /\ this_count >= omni /\ this_count < best.count
             THEN BestElem([elem |-> elem, count |-> this_count],
                           remaining, omni, Tail(elems))
             ELSE IF best.count < omni /\ this_count > best.count
             THEN BestElem([elem |-> elem, count |-> this_count],
                           remaining, omni, Tail(elems))
             ELSE IF best.count = omni
             THEN best                                       \* break
             ELSE BestElem(best, remaining, omni, Tail(elems))

\* basically_satisfy, lines 277-296: if omni > 0
OmniPass(st, omni, iter) ==
    IF omni > 0
    THEN LET best == BestElem([elem |-> NoElem, count |-> 0],
                              st.remaining, omni, iter)
         IN  IF best.elem # NoElem
             THEN LET best_count == Min(best.count, omni) IN
                  [st EXCEPT !.answer[best.elem] = @ + best_count,
                             !.remaining[best.elem] = @ - best_count,
                             !.omni_required = @ + (omni - best_count)]
             ELSE [st EXCEPT !.omni_required = @ + omni]
    ELSE st

\* the items left in their dict order, unsorted
SortedElemsMut(remaining, keys) == keys

\* sorted(remaining.items(), key=itemgetter(1)): a stable sort of the keys, in
\* their dict order, by count
SortedElems(remaining, keys) ==
    LET n == Len(keys)
        Before(j, i) ==
            \/ remaining[keys[j]] < remaining[keys[i]]
            \/ remaining[keys[j]] = remaining[keys[i]] /\ j < i
        Rank(i) == Cardinality({j \in 1..n : Before(j, i)}) + 1
    IN  [r \in 1..n |-> keys[CHOOSE i \in 1..n : Rank(i) = r]]

RECURSIVE AnyLoop(_, _, _)
\* basically_satisfy, lines 300-307: for elem, num in sorted_elems
AnyLoop(st, snapshot, elems) ==
    IF elems = <<>> THEN st
    ELSE LET elem == Head(elems) IN
         IF elem \in _PURE_ELEMS
         THEN LET num == Min(snapshot[elem], st.any)
                  nxt == [st EXCEPT !.answer[elem] = @ + num,
                                    !.remaining[elem] = @ - num,
                                    !.any = @ - num]
              IN  IF nxt.any = 0 THEN nxt                   \* break
                  ELSE AnyLoop(nxt, snapshot, Tail(elems))
         ELSE AnyLoop(st, snapshot, Tail(elems))

\* basically_satisfy, lines 297-310: if any > 0
AnyPass(st, keys) ==
    IF st.any > 0
    THEN LET looped == AnyLoop(st, st.remaining, SortedElems(st.remaining, keys))
         IN  IF looped.any > 0
             THEN [looped EXCEPT !.answer["OMNI"] = @ + looped.any,
                                 !.remaining["OMNI"] = @ - looped.any]
             ELSE looped
    ELSE st

\* ActualDice.basically_satisfy.  keys is the insertion order of self._dice,
\* iter the iteration order of the frozenset _PURE_ELEMS.
basically_satisfy(self, req, keys, iter) ==
    IF num_dice(req) > num_dice(self) THEN None
    ELSE LET pures == [e \in _PURE_ELEMS |-> Get(req, e)]
             st0 == [remaining |-> self,
                     answer |-> from_empty(ActualElems),
                     omni_required |-> 0,
                     any |-> Get(req, "ANY")]
             st1 == PuresPass(st0, pures, Positive(pures, Tail(_LEGAL_ELEMS_ORDERED)))
             st2 == OmniPass(st1, Get(req, "OMNI"), iter)
             st3 == AnyPass(st2, keys)
         IN  IF st3.omni_required > 0
             THEN IF Get(st3.remaining, "OMNI") < st3.omni_required
                  THEN None
                  ELSE Some([st3.answer EXCEPT !["OMNI"] = @ + st3.omni_required])
             ELSE Some(st3.answer)


---------------------------------------------------------------------------
(* The dice calls: inputs drawn from bounded sets, then the two calls *)

MaxHeld == 3      \* most dice in a small held pool
MaxReq == 2       \* most dice in a small requirement
WideSlack == 1    \* a wide pool holds up to 7 + WideSlack + 1 OMNI tokens

RECURSIVE DiceUpTo(_, _)
\* every dice over the elements elems with at most n dice
DiceUpTo(elems, n) ==
    IF n = 0 THEN {from_empty(elems)}
    ELSE LET less == DiceUpTo(elems, n - 1) IN
         less \cup {[d EXCEPT ![k] = @ + 1] : d \in less, k \in elems}

SmallHelds == DiceUpTo(ActualElems, MaxHeld)
SmallReqs == DiceUpTo(AbstractElems, MaxReq)

\* requirements that ask for every pure element at once, and pools made of
\* OMNI tokens and at most one pure die
NumPure == Cardinality(_PURE_ELEMS)
WideReqs ==
    {[k \in AbstractElems |->
        IF k \in _PURE_ELEMS THEN 1 ELSE IF k = "OMNI" THEN o ELSE a] :
     o \in 0..1, a \in 0..1}
WideHelds ==
    {[k \in ActualElems |->
        IF k = "OMNI" THEN n ELSE IF k = p THEN c ELSE 0] :
     n \in (NumPure - 1)..(NumPure + WideSlack + 1), p \in _PURE_ELEMS, c \in 0..1}

RECURSIVE Perms(_)
\* every order the elements of S can be listed in
Perms(S) ==
    IF S = {} THEN {<<>>}
    ELSE UNION {{<<x>> \o p : p \in Perms(S \ {x})} : x \in S}

\* the orders the dict of held dice may have been built in (a dict keeps its
\* insertion order, and from_empty inserts in the order of a frozenset), and
\* the orders the frozenset _PURE_ELEMS may iterate in (it depends on the
\* hash seed): any order
KeyOrders == Perms(ActualElems)
PureOrders == Perms(_PURE_ELEMS)

\* The two loops that follow these orders skip OMNI and do nothing at a kind
\* with no die left, so a result depends on the order of the pure kinds held
\* only: one order of KeyOrders and of PureOrders for each order of those
HeldPures(dice) == {e \in _PURE_ELEMS : Get(dice, e) > 0}
KeyOrdersOf(dice) ==
    {p \o SelectSeq(_LEGAL_ELEMS_ORDERED, LAMBDA e : e \notin HeldPures(dice)) :
        p \in Perms(HeldPures(dice))}
PureOrdersOf(dice) ==
    {p \o SelectSeq(Tail(_LEGAL_ELEMS_ORDERED),
                    LAMBDA e : e \notin HeldPures(dice)) :
        p \in Perms(HeldPures(dice))}

InitDice ==
    /\ \/ held \in SmallHelds /\ requirement \in SmallReqs
       \/ held \in WideHelds /\ requirement \in WideReqs
    /\ heldKeys \in IF Get(requirement, "ANY") > 0 THEN KeyOrdersOf(held)
                   ELSE {_LEGAL_ELEMS_ORDERED}
    /\ pureIter \in IF Get(requirement, "OMNI") > 0 THEN PureOrdersOf(held)
                   ELSE {Tail(_LEGAL_ELEMS_ORDERED)}
    /\ answer = None
    /\ can = FALSE
    /\ dpc = "input"
    /\ gs = [phase |-> "NoGame"]
    /\ fault = "NoFault"
    /\ last = [op |-> "new"]
    /\ ran = <<>>

\* can = held.loosely_satisfy(requirement)
CallLooselySatisfy ==
    /\ dpc = "input"
    /\ can' = loosely_satisfy(held, requirement)
    /\ dpc' = "checked"
    /\ UNCHANGED <<held, heldKeys, requirement, pureIter, answer>>
    /\ UNCHANGED gameVars

\* answer = held.basically_satisfy(requirement)
CallBasicallySatisfy ==
    /\ dpc = "checked"
    /\ answer' = basically_satisfy(held, requirement, heldKeys, pureIter)
    /\ dpc' = "done"
    /\ UNCHANGED <<held, heldKeys, requirement, pureIter, can>>
    /\ UNCHANGED gameVars

NextDice == CallLooselySatisfy \/ CallBasicallySatisfy

SpecDice == InitDice /\ [][NextDice]_vars

---------------------------------------------------------------------------
(* Claims about the dice *)

\* every sub-multiset of a pool
RECURSIVE SubDiceOver(_, _)
SubDiceOver(d, keys) ==
    IF keys = {} THEN {[k \in DOMAIN d |-> 0]}
    ELSE LET k == CHOOSE x \in keys : TRUE IN
         {[s EXCEPT ![k] = n] : s \in SubDiceOver(d, keys \ {k}), n \in 0..d[k]}
SubDice(d) == SubDiceOver(d, DOMAIN d)

\* s pays req: as many dice as req asks for; each pure cost paid by dice of
\* its kind plus OMNI tokens; the OMNI cost by the dice of one kind e that
\* the pure cost of e leaves, plus OMNI tokens; the ANY cost by the rest
Pays(s, req) ==
    /\ num_dice(s) = num_dice(req)
    /\ LET short == [k \in _PURE_ELEMS |-> Max(0, Get(req, k) - Get(s, k))]
           left == [k \in _PURE_ELEMS |-> Max(0, Get(s, k) - Get(req, k))]
       IN  \E e \in _PURE_ELEMS :
              Get(s, "OMNI") >=
                 SumOver(short, _PURE_ELEMS) + Max(0, Get(req, "OMNI") - left[e])

\* C1: an allocation that basically_satisfy returns is a sub-multiset of the
\* held dice (held - answer is legal), holds exactly requirement.num_dice()
\* dice and pays the requirement's pure, OMNI and ANY costs.
AllocationSound ==
    (dpc = "done" /\ answer.some) =>
        /\ \A k \in ActualElems : answer.dice[k] >= 0 /\ answer.dice[k] <= held[k]
        /\ is_legal(DiceSub(held, answer.dice), ActualElems)
        /\ num_dice(answer.dice) = num_dice(requirement)
        /\ Pays(answer.dice, requirement)

\* an allocation was returned that pays a pure shortfall with OMNI tokens and
\* an OMNI or ANY cost beside it
AllocationSoundWitness ==
    /\ dpc = "done" /\ answer.some
    /\ answer.dice["OMNI"] > 0
    /\ \E k \in _PURE_ELEMS : requirement[k] > held[k]
    /\ requirement["OMNI"] + requirement["ANY"] > 0

\* C2: basically_satisfy returns None only when no sub-multiset of the held
\* dice pays the requirement.
AllocationComplete ==
    (dpc = "done" /\ ~answer.some) =>
        ~ \E s \in SubDice(held) : Pays(s, requirement)

\* None was returned although enough dice are held: the OMNI tokens do not
\* cover the shortfall
AllocationCompleteWitness ==
    /\ dpc = "done" /\ ~answer.some
    /\ num_dice(held) >= num_dice(requirement)
    /\ held["OMNI"] > 0
    /\ \E k \in _PURE_ELEMS : requirement[k] > held[k]

\* C3: loosely_satisfy is true exactly when basically_satisfy returns an
\* allocation.
CheckAgreesWithAllocation ==
    dpc = "done" => (can <=> answer.some)


---------------------------------------------------------------------------
(* Game state: players, characters, statuses, the effect stack *)

NoFault == "NoFault"
NoPid == "NoPid"

\* the value a handler yields when it raises instead of returning a state
Raise(msg) == [exception |-> msg]
Raised(r) == "exception" \in DOMAIN r

\* GameState.Pid.other
other(pid) == IF pid = "P1" THEN "P2" ELSE "P1"

\* GameState.get_player / get_other_player
get_player(g, pid) == g.players[pid]
get_other_player(g, pid) == g.players[other(pid)]

\* EffectStack: the front of the stack is the head of the sequence
push_many_fl(es, effects) == effects \o es
push_one(es, effect) == <<effect>> \o es
peek(es) == Head(es)
pop(es) == [effect_stack |-> Tail(es), effect |-> Head(es)]

\* game_state.factory().f_effect_stack(lambda es: es.push_many_fl(effects)).build()
PushEffects(g, effects) ==
    [g EXCEPT !.effect_stack = push_many_fl(@, effects)]

\* game_state.factory().f_player(pid, lambda p: p.factory().f_characters(
\*     lambda cs: cs.factory().character(character).build()).build()).build()
SetCharacter(g, pid, character) ==
    [g EXCEPT !.players[pid].characters[character.id] = character]

\* Statuses: statuses.py
NoStatus == [type |-> "NoStatus", usages |-> 0]

RECURSIVE update_statuses_from(_, _, _)
update_statuses_from(statuses, new_status, i) ==
    IF i > Len(statuses) THEN Append(statuses, new_status)
    ELSE IF statuses[i].type = new_status.type
         THEN IF statuses[i] = new_status THEN statuses
              ELSE [statuses EXCEPT ![i] = new_status]
         ELSE update_statuses_from(statuses, new_status, i + 1)

\* an update that appends whatever the collection holds
update_statusesMut(statuses, new_status) ==
    Append(statuses, new_status)

\* Statuses.update_statuses
update_statuses(statuses, new_status) ==
    update_statuses_from(statuses, new_status, 1)

\* Statuses.find
find(statuses, type) ==
    IF \E i \in 1..Len(statuses) : statuses[i].type = type
    THEN statuses[CHOOSE i \in 1..Len(statuses) :
                    /\ statuses[i].type = type
                    /\ \A j \in 1..(i - 1) : statuses[j].type # type]
    ELSE NoStatus

\* Statuses.remove
remove(statuses, type) == SelectSeq(statuses, LAMBDA bf : bf.type # type)

\* the class a status type derives from (issubclass in effect.py)
StatusKind(type) ==
    CASE type = "Satiated" -> "CharacterStatus"
      [] type = "Shield" -> "CharacterStatus"
      [] type = "Artifact" -> "EquipmentStatus"
      [] type = "Talent" -> "CharacterTalentStatus"
      [] OTHER -> "Status"

\* self.status(): a status of the type with its default fields
NewStatus(type) == [type |-> type, usages |-> 1]

\* Character
NoCharacter == [id |-> 0]
IsCharacter(c) == c.id # 0
defeated(character) == character.hp = 0
get_all_statuses_ordered_flattened(character) ==
    character.character_statuses \o character.equipment_statuses
        \o character.talent_statuses

\* Characters.get_active_character
get_active_character(player) ==
    IF player.active_character_id \in 1..Len(player.characters)
    THEN player.characters[player.active_character_id]
    ELSE NoCharacter

\* Characters.get_character_in_activity_order: the active character, then
\* the others in their stored order
get_character_in_activity_order(player) ==
    IF ~IsCharacter(get_active_character(player)) THEN player.characters
    ELSE <<get_active_character(player)>> \o
            SelectSeq(player.characters,
                      LAMBDA c : c.id # player.active_character_id)

\* PlayerState.defeated: every character is defeated
player_defeated(player) ==
    \A i \in 1..Len(player.characters) : defeated(player.characters[i])

\* GameState.get_target / get_character_target
get_target(g, target) ==
    IF /\ target.zone = "CHARACTER"
       /\ target.id \in 1..Len(g.players[target.pid].characters)
    THEN g.players[target.pid].characters[target.id]
    ELSE NoCharacter


---------------------------------------------------------------------------
(* Effects: dgisim/src/effect/effect.py *)

RECURSIVE StatusesInOrder(_, _)
\* the (status, target) pairs _loopAllStatuses visits for these characters
StatusesInOrder(pid, characters) ==
    IF characters = <<>> THEN <<>>
    ELSE LET character == Head(characters)
             statuses == get_all_statuses_ordered_flattened(character)
             target == [pid |-> pid, zone |-> "CHARACTER", id |-> character.id]
         IN  [i \in 1..Len(statuses) |->
                 [status |-> statuses[i], target |-> target]]
             \o StatusesInOrder(pid, Tail(characters))

\* _loopAllStatuses: the statuses of player pid in the order f is applied
_loopAllStatuses(g, pid) ==
    StatusesInOrder(pid, get_character_in_activity_order(get_player(g, pid)))

\* _triggerAllStatusesEffects
_triggerAllStatusesEffects(g, pid, signal) ==
    LET visited == _loopAllStatuses(g, pid) IN
    [i \in 1..Len(visited) |->
        [name |-> "TriggerStatusEffect", target |-> visited[i].target,
         status |-> visited[i].status.type, signal |-> signal]]

\* TriggerStatusEffect.execute; react is what status.react_to_signal returns
TriggerStatusEffect_execute(self, g, react) ==
    LET character == get_target(g, self.target) IN
    IF ~IsCharacter(character) THEN g
    ELSE IF StatusKind(self.status) = "CharacterTalentStatus"
         THEN PushEffects(g, <<>>)
    ELSE IF StatusKind(self.status) = "EquipmentStatus"
         THEN PushEffects(g, <<>>)
    ELSE IF StatusKind(self.status) = "CharacterStatus"
         THEN IF find(character.character_statuses, self.status) = NoStatus
              THEN g
              ELSE PushEffects(g, react)
    ELSE Raise("Unexpected Status Type to Trigger")

\* the trigger effects handed to the stack last to first
AllStatusTriggererEffect_executeMut(self, g) ==
    PushEffects(g, Reverse(_triggerAllStatusesEffects(g, self.pid, self.signal)))

\* AllStatusTriggererEffect.execute
AllStatusTriggererEffect_execute(self, g) ==
    PushEffects(g, _triggerAllStatusesEffects(g, self.pid, self.signal))

\* a death check that starts the swap without changing the tags
DeathCheckCheckerEffect_executeMut(self, g) ==
    LET p1_character == get_active_character(g.players["P1"])
        p2_character == get_active_character(g.players["P2"])
    IN  IF ~defeated(p1_character) /\ ~defeated(p2_character) THEN g
        ELSE LET pid == IF defeated(p1_character) THEN "P1" ELSE "P2"
                 effects ==
                    << [name |-> "DeathSwapPhaseStartEffect"],
                       [name |-> "DeathSwapPhaseEndEffect", my_pid |-> pid,
                        my_last_phase |-> get_player(g, pid).phase,
                        other_last_phase |-> get_other_player(g, pid).phase] >>
             IN  IF player_defeated(get_player(g, pid))
                 THEN [g EXCEPT !.phase = "GameEnd"]
                 ELSE [g EXCEPT !.effect_stack = push_many_fl(@, effects)]

\* DeathCheckCheckerEffect.execute
DeathCheckCheckerEffect_execute(self, g) ==
    LET p1_character == get_active_character(g.players["P1"])
        p2_character == get_active_character(g.players["P2"])
    IN  IF ~IsCharacter(p1_character) \/ ~IsCharacter(p2_character)
        THEN Raise("AssertionError")
        ELSE IF ~defeated(p1_character) /\ ~defeated(p2_character) THEN g
        ELSE LET pid == IF defeated(p1_character) THEN "P1" ELSE "P2"
                 death_swap_player == get_player(g, pid)
                 waiting_player == get_other_player(g, pid)
                 effects ==
                    << [name |-> "DeathSwapPhaseStartEffect"],
                       [name |-> "DeathSwapPhaseEndEffect", my_pid |-> pid,
                        my_last_phase |-> death_swap_player.phase,
                        other_last_phase |-> waiting_player.phase] >>
             IN  IF player_defeated(death_swap_player)
                 THEN [g EXCEPT !.phase = "GameEnd"]
                 ELSE [g EXCEPT
                         !.effect_stack = push_many_fl(@, effects),
                         !.players[pid].phase = "ACTION_PHASE",
                         !.players[other(pid)].phase = "PASSIVE_WAIT_PHASE"]

\* the end of a death swap that leaves the swapping player waiting
DeathSwapPhaseEndEffect_executeWaitMut(self, g) ==
    [g EXCEPT !.players[self.my_pid].phase = "PASSIVE_WAIT_PHASE",
              !.players[other(self.my_pid)].phase = self.other_last_phase]

\* the end of a death swap that hands each player the other's tag
DeathSwapPhaseEndEffect_executeMut(self, g) ==
    [g EXCEPT !.players[self.my_pid].phase = self.other_last_phase,
              !.players[other(self.my_pid)].phase = self.my_last_phase]

\* DeathSwapPhaseEndEffect.execute
DeathSwapPhaseEndEffect_execute(self, g) ==
    [g EXCEPT !.players[self.my_pid].phase = self.my_last_phase,
              !.players[other(self.my_pid)].phase = self.other_last_phase]

\* the two triggerers with the other player first
EndPhaseCheckoutEffect_executeMut(self, g) ==
    PushEffects(g,
        << [name |-> "AllStatusTriggererEffect", pid |-> other(g.active_player),
            signal |-> "END_ROUND_CHECK_OUT"],
           [name |-> "AllStatusTriggererEffect", pid |-> g.active_player,
            signal |-> "END_ROUND_CHECK_OUT"] >>)

\* EndPhaseCheckoutEffect.execute
EndPhaseCheckoutEffect_execute(self, g) ==
    PushEffects(g,
        << [name |-> "AllStatusTriggererEffect", pid |-> g.active_player,
            signal |-> "END_ROUND_CHECK_OUT"],
           [name |-> "AllStatusTriggererEffect", pid |-> other(g.active_player),
            signal |-> "END_ROUND_CHECK_OUT"] >>)

\* EndRoundEffect.execute
EndRoundEffect_execute(self, g) ==
    PushEffects(g,
        << [name |-> "AllStatusTriggererEffect", pid |-> g.active_player,
            signal |-> "ROUND_END"],
           [name |-> "AllStatusTriggererEffect", pid |-> other(g.active_player),
            signal |-> "ROUND_END"] >>)

\* a turn end that forgets to take the turn from the player who ends it
TurnEndEffect_executeMut(self, g) ==
    LET active_player_id == g.active_player IN
    IF get_player(g, active_player_id).phase # "ACTION_PHASE"
    THEN Raise("AssertionError")
    ELSE IF get_other_player(g, active_player_id).phase = "END_PHASE" THEN g
    ELSE [g EXCEPT
            !.active_player = other(active_player_id),
            !.players[other(active_player_id)].phase = "ACTION_PHASE"]

\* TurnEndEffect.execute
TurnEndEffect_execute(self, g) ==
    LET active_player_id == g.active_player IN
    IF get_player(g, active_player_id).phase # "ACTION_PHASE"
    THEN Raise("AssertionError")
    ELSE IF get_other_player(g, active_player_id).phase = "END_PHASE" THEN g
    ELSE [g EXCEPT
            !.active_player = other(active_player_id),
            !.players[active_player_id].phase = "PASSIVE_WAIT_PHASE",
            !.players[other(active_player_id)].phase = "ACTION_PHASE"]

\* EndPhaseTurnEndEffect.execute
EndPhaseTurnEndEffect_execute(self, g) ==
    LET active_player_id == g.active_player IN
    IF get_player(g, active_player_id).phase # "ACTIVE_WAIT_PHASE"
    THEN Raise("AssertionError")
    ELSE [g EXCEPT
            !.active_player = other(active_player_id),
            !.players[active_player_id].phase = "PASSIVE_WAIT_PHASE",
            !.players[other(active_player_id)].phase = "ACTIVE_WAIT_PHASE"]

\* SetBothPlayerPhaseEffect.execute
SetBothPlayerPhaseEffect_execute(self, g) ==
    [g EXCEPT !.players["P1"].phase = self.phase,
              !.players["P2"].phase = self.phase]

\* RemoveCharacterStatusEffect.execute
RemoveCharacterStatusEffect_execute(self, g) ==
    LET character == get_target(g, self.target) IN
    IF ~IsCharacter(character) THEN g
    ELSE LET new_character ==
                IF StatusKind(self.status) = "CharacterStatus"
                THEN [character EXCEPT
                        !.character_statuses = remove(@, self.status)]
                ELSE character
         IN  SetCharacter(g, self.target.pid, new_character)

\* SwapCharacterEffect.execute
SwapCharacterEffect_execute(self, g) ==
    IF ~ /\ self.source.pid = self.target.pid
         /\ self.source.zone = "CHARACTER"
         /\ self.target.zone = "CHARACTER"
         /\ self.source.id # self.target.id
    THEN Raise("AssertionError")
    ELSE [g EXCEPT !.players[self.source.pid].active_character_id = self.target.id]

\* SwapCharacterEffect.execute of the class the End phase builds from a
\* single target: the character named becomes the active one
SwapCharacterEffect_executeTarget(self, g) ==
    [g EXCEPT !.players[self.target.pid].active_character_id = self.target.id]

\* EnergyRechargeEffect.execute
EnergyRechargeEffect_execute(self, g) ==
    LET character == get_target(g, self.target) IN
    IF ~IsCharacter(character) THEN g
    ELSE LET energy == Min(character.energy + self.recharge, character.max_energy)
         IN  IF energy = character.energy THEN g
             ELSE SetCharacter(g, self.target.pid,
                               [character EXCEPT !.energy = energy])

\* EnergyDrainEffect.execute
EnergyDrainEffect_execute(self, g) ==
    LET character == get_target(g, self.target) IN
    IF ~IsCharacter(character) THEN g
    ELSE LET energy == Max(character.energy - self.drain, 0)
         IN  IF energy = character.energy THEN g
             ELSE SetCharacter(g, self.target.pid,
                               [character EXCEPT !.energy = energy])

\* recovery without the cap at max_hp
RecoverHPEffect_executeMut(self, g) ==
    LET character == get_target(g, self.target) IN
    IF ~IsCharacter(character) THEN g
    ELSE LET hp == character.hp + self.recovery
         IN  IF hp = character.hp THEN g
             ELSE [g EXCEPT
                     !.players[self.target.pid].characters[character.id].hp = hp]

\* RecoverHPEffect.execute
RecoverHPEffect_execute(self, g) ==
    LET character == get_target(g, self.target) IN
    IF ~IsCharacter(character) THEN g
    ELSE LET hp == Min(character.hp + self.recovery, character.max_hp)
         IN  IF hp = character.hp THEN g
             ELSE [g EXCEPT
                     !.players[self.target.pid].characters[character.id].hp = hp]

\* RemoveCardEffect.execute: nothing changes unless the hand holds the card,
\* else one copy of it leaves the hand (Cards.contains, Cards.remove)
RemoveCardEffect_execute(self, g) ==
    LET hand_cards == get_player(g, self.pid).hand_cards IN
    IF self.card \notin DOMAIN hand_cards \/ hand_cards[self.card] <= 0 THEN g
    ELSE [g EXCEPT !.players[self.pid].hand_cards[self.card] = @ - 1]

\* removal that stops at zero instead of failing
RemoveDiceEffect_executeMut(self, g) ==
    [g EXCEPT !.players[self.pid].dices =
        [k \in DOMAIN @ |-> Max(0, @[k] - Get(self.dices, k))]]

\* RemoveDiceEffect.execute
RemoveDiceEffect_execute(self, g) ==
    LET new_dices == DiceSub(get_player(g, self.pid).dices, self.dices) IN
    IF ~is_legal(new_dices, ActualElems)
    THEN Raise("Not enough dices for this effect")
    ELSE [g EXCEPT !.players[self.pid].dices = new_dices]

\* AddStatusEffect.execute
AddStatusEffect_execute(self, g) ==
    LET character == get_target(g, self.target) IN
    IF ~IsCharacter(character) THEN Raise("AssertionError")
    ELSE LET new_character ==
                IF StatusKind(self.status) = "CharacterStatus"
                THEN [character EXCEPT !.character_statuses =
                        update_statuses(@, NewStatus(self.status))]
                ELSE character
         IN  SetCharacter(g, self.target.pid, new_character)

\* UpdateStatusEffect.execute; its status field holds a status, not a class,
\* and is named new_status here
UpdateStatusEffect_execute(self, g) ==
    LET character == get_target(g, self.target) IN
    IF ~IsCharacter(character) THEN Raise("AssertionError")
    ELSE LET new_character ==
                IF StatusKind(self.new_status.type) = "CharacterStatus"
                THEN [character EXCEPT !.character_statuses =
                        update_statuses(@, self.new_status)]
                ELSE character
         IN  SetCharacter(g, self.target.pid, new_character)


\* Status.preprocess: a Shield absorbs one point of a damage amount per usage;
\* every other status hands the item on and stays as it is
preprocess(status, item, pp_type) ==
    IF /\ status.type = "Shield" /\ pp_type = "DmgAmount"
       /\ status.usages > 0 /\ item.damage > 0
    THEN [item |-> [item EXCEPT !.damage = @ - 1],
          status |-> [status EXCEPT !.usages = @ - 1]]
    ELSE [item |-> item, status |-> status]

RECURSIVE PreprocessLoop(_, _, _, _)
\* _preprocessByAllStatuses, lines 175-182: f applied to each visited status
PreprocessLoop(g, item, pp_type, visited) ==
    IF visited = <<>> THEN [game_state |-> g, item |-> item]
    ELSE LET status == Head(visited).status
             pp == preprocess(status, item, pp_type)
             updated ==
                IF pp.status = status
                THEN UpdateStatusEffect_execute(
                        [name |-> "UpdateStatusEffect",
                         target |-> Head(visited).target,
                         new_status |-> pp.status], g)
                ELSE g
         IN  PreprocessLoop(updated, pp.item, pp_type, Tail(visited))

\* _preprocessByAllStatuses
_preprocessByAllStatuses(g, pid, item, pp_type) ==
    PreprocessLoop(g, item, pp_type, _loopAllStatuses(g, pid))

\* the (game_state, item) pair of a pass as a (game_state, damage) pair
AsDamage(pp) == [game_state |-> pp.game_state, damage |-> pp.item]

\* DamageEffect._damage_preprocess: the second pass is given damage again
_damage_preprocess(g, damage, pp_type) ==
    LET source_id == damage.source.pid
        first == _preprocessByAllStatuses(g, source_id, damage, pp_type)
    IN  AsDamage(_preprocessByAllStatuses(first.game_state, other(source_id),
                                          damage, pp_type))

NoReaction == "NoReaction"

\* Reaction.consult_reaction: the reaction of an aura element with an
\* incoming element
consult_reaction(first, second) ==
    LET pair == {first, second} IN
    CASE pair = {"DENDRO", "HYDRO"} -> "BLOOM"
      [] pair = {"DENDRO", "PYRO"} -> "BURNING"
      [] pair = {"HYDRO", "ELECTRO"} -> "ELECTRO_CHARGED"
      [] pair = {"HYDRO", "CRYO"} -> "FROZEN"
      [] pair = {"PYRO", "CRYO"} -> "MELT"
      [] pair = {"PYRO", "ELECTRO"} -> "OVERLOADED"
      [] pair = {"DENDRO", "ELECTRO"} -> "QUICKEN"
      [] pair = {"CRYO", "ELECTRO"} -> "SUPERCONDUCT"
      [] pair = {"HYDRO", "PYRO"} -> "VAPORIZE"
      [] first \in {"PYRO", "HYDRO", "CRYO", "ELECTRO"} /\ second = "GEO"
            -> "CRYSTALLIZE"
      [] first \in {"PYRO", "HYDRO", "CRYO", "ELECTRO"} /\ second = "ANEMO"
            -> "SWIRL"
      [] OTHER -> NoReaction

\* ElementalAura.aurable
aurable(aura, elem) ==
    elem \in {"PYRO", "HYDRO", "CRYO", "ELECTRO", "DENDRO"}

\* DamageEffect._get_opponent
_get_opponent(g, damage) ==
    IF damage.target = "OPPO_ACTIVE"
    THEN get_active_character(get_other_player(g, damage.source.pid))
    ELSE Raise("Not implemented yet")

\* the reaction of the first aura element that reacts with second_elem
ReactionOf(all_aura, second_elem) ==
    LET reacting == {i \in 1..Len(all_aura) :
                        consult_reaction(all_aura[i], second_elem) # NoReaction}
    IN  IF reacting = {} THEN [reaction |-> NoReaction]
        ELSE LET first_elem ==
                    all_aura[CHOOSE i \in reacting : \A j \in reacting : i <= j]
             IN  [reaction |-> consult_reaction(first_elem, second_elem),
                  first_elem |-> first_elem, second_elem |-> second_elem]

\* the tuple _reaction_confirmation returns
WithReaction(pp, reactionDetail) ==
    [game_state |-> pp.game_state, damage |-> pp.damage,
     reaction |-> reactionDetail]

\* _reaction_confirmation from line 489 on.  An ElementalAura is immutable:
\* new_aura.remove(first_elem) and new_aura.add(second_elem) return a new
\* aura, which lines 494 and 498 drop, so new_aura stays all_aura.
ConfirmReaction(g, damage, target_char, reactionDetail) ==
    LET all_aura == target_char.elemental_aura
        new_aura == all_aura
        reacted == IF reactionDetail.reaction # NoReaction
                   THEN [damage EXCEPT !.reaction = reactionDetail]
                   ELSE damage
        updated ==
            IF new_aura # all_aura
            THEN SetCharacter(g, other(damage.source.pid),
                     [target_char EXCEPT !.elemental_aura = new_aura])
            ELSE g
    IN  WithReaction(_damage_preprocess(updated, reacted, "DmgReaction"),
                     reactionDetail)

\* DamageEffect._element_confirmation
_element_confirmation(g, damage) == _damage_preprocess(g, damage, "DmgElement")

\* DamageEffect._reaction_confirmation, given what _element_confirmation
\* returned
_reaction_confirmation(elemented) ==
    LET target_char == _get_opponent(elemented.game_state, elemented.damage) IN
    IF Raised(target_char) THEN target_char
    ELSE IF ~IsCharacter(target_char) THEN Raise("AssertionError")
    ELSE ConfirmReaction(elemented.game_state, elemented.damage, target_char,
            ReactionOf(target_char.elemental_aura, elemented.damage.element))

\* DamageEffect._damage_confirmation, given what _reaction_confirmation
\* returned
_damage_confirmation(reactioned) ==
    _damage_preprocess(reactioned.game_state, reactioned.damage, "DmgAmount")

\* an HP write that builds the target anew, without its statuses
ApplyDamageMut(pid, opponent, actual) ==
    [actual.game_state EXCEPT
        !.players[other(pid)].characters[opponent.id] =
            [opponent EXCEPT !.hp = Max(0, opponent.hp - actual.damage.damage),
                             !.character_statuses = <<>>]]

\* DamageEffect.execute from line 533 on: the hp is written into the
\* opponent read before the three passes
ApplyDamage(pid, opponent, actual) ==
    [actual.game_state EXCEPT
        !.players[other(pid)].characters[opponent.id] =
            [opponent EXCEPT !.hp = Max(0, opponent.hp - actual.damage.damage)]]

\* DamageEffect.execute
DamageEffect_execute(self, g) ==
    LET opponent == _get_opponent(g, self)
        reactioned == _reaction_confirmation(_element_confirmation(g, self))
    IN  IF Raised(opponent) THEN opponent
        ELSE IF ~IsCharacter(opponent) THEN g
        ELSE IF Raised(reactioned) THEN reactioned
        ELSE ApplyDamage(self.source.pid, opponent,
                         _damage_confirmation(reactioned))

\* effect.execute(game_state), by the class of the effect
execute(effect, g, react) ==
    CASE effect.name = "TriggerStatusEffect" ->
            TriggerStatusEffect_execute(effect, g, react)
      [] effect.name = "AllStatusTriggererEffect" ->
            AllStatusTriggererEffect_execute(effect, g)
      [] effect.name = "DeathCheckCheckerEffect" ->
            DeathCheckCheckerEffect_execute(effect, g)
      [] effect.name = "DeathSwapPhaseEndEffect" ->
            DeathSwapPhaseEndEffect_execute(effect, g)
      [] effect.name = "EndPhaseCheckoutEffect" ->
            EndPhaseCheckoutEffect_execute(effect, g)
      [] effect.name = "EndRoundEffect" -> EndRoundEffect_execute(effect, g)
      [] effect.name = "TurnEndEffect" -> TurnEndEffect_execute(effect, g)
      [] effect.name = "EndPhaseTurnEndEffect" ->
            EndPhaseTurnEndEffect_execute(effect, g)
      [] effect.name = "SetBothPlayerPhaseEffect" ->
            SetBothPlayerPhaseEffect_execute(effect, g)
      [] effect.name = "RemoveCharacterStatusEffect" ->
            RemoveCharacterStatusEffect_execute(effect, g)
      [] effect.name = "SwapCharacterEffect" /\ "source" \in DOMAIN effect ->
            SwapCharacterEffect_execute(effect, g)
      [] effect.name = "SwapCharacterEffect" /\ "source" \notin DOMAIN effect ->
            SwapCharacterEffect_executeTarget(effect, g)
      [] effect.name = "DamageEffect" -> DamageEffect_execute(effect, g)
      [] effect.name = "EnergyRechargeEffect" ->
            EnergyRechargeEffect_execute(effect, g)
      [] effect.name = "EnergyDrainEffect" ->
            EnergyDrainEffect_execute(effect, g)
      [] effect.name = "RecoverHPEffect" -> RecoverHPEffect_execute(effect, g)
      [] effect.name = "RemoveCardEffect" -> RemoveCardEffect_execute(effect, g)
      [] effect.name = "RemoveDiceEffect" -> RemoveDiceEffect_execute(effect, g)
      [] effect.name = "AddStatusEffect" -> AddStatusEffect_execute(effect, g)
      [] effect.name = "UpdateStatusEffect" ->
            UpdateStatusEffect_execute(effect, g)
      [] OTHER -> Raise("Not Overriden or Implemented")


---------------------------------------------------------------------------
(* The End phase: src/dgisim/phase/default/end_phase.py *)

\* GameState.ROUND_LIMIT, the mode's round_limit()
ROUND_LIMIT == 15

\* Cards: a multiset of cards; __add__, the cards left after a pick, and the
\* picks pick_random_cards(num) can make (num cards, or all when fewer)
CardsAdd(a, b) == [c \in DOMAIN a |-> a[c] + b[c]]
CardsSub(a, b) == [c \in DOMAIN a |-> a[c] - b[c]]
num_cards(cards) == SumOver(cards, DOMAIN cards)
pick_random_cards(cards, num) ==
    {picked \in [DOMAIN cards -> 0..num] :
        /\ \A c \in DOMAIN cards : picked[c] <= cards[c]
        /\ num_cards(picked) = Min(num, num_cards(cards))}

\* EndPhase._CARDS_DRAWN
_CARDS_DRAWN == 2

\* EndPhase._initialize_end_phase
_initialize_end_phase(g) ==
    [g EXCEPT
       !.effect_stack = push_many_fl(@,
            << [name |-> "EndPhaseCheckoutEffect"],
               [name |-> "EndRoundEffect"],
               [name |-> "SetBothPlayerPhaseEffect", phase |-> "END_PHASE"] >>),
       !.players[g.active_player].phase = "ACTIVE_WAIT_PHASE"]

\* the other player's hand is given the cards picked from the active
\* player's deck
_to_roll_phaseMut(g, new_round, drawn_a, drawn_o) ==
    LET a == g.active_player
        o == other(g.active_player)
    IN  [g EXCEPT
           !.round = new_round,
           !.phase = "Roll",
           !.players[a].phase = "PASSIVE_WAIT_PHASE",
           !.players[a].dices = from_empty(ActualElems),
           !.players[a].hand_cards = CardsAdd(@, drawn_a),
           !.players[a].deck_cards = CardsSub(@, drawn_a),
           !.players[o].phase = "PASSIVE_WAIT_PHASE",
           !.players[o].dices = from_empty(ActualElems),
           !.players[o].hand_cards = CardsAdd(@, drawn_a),
           !.players[o].deck_cards = CardsSub(@, drawn_o)]

\* EndPhase._to_roll_phase; drawn_a and drawn_o are the cards that
\* pick_random_cards(_CARDS_DRAWN) picked from the two decks
_to_roll_phase(g, new_round, drawn_a, drawn_o) ==
    LET a == g.active_player
        o == other(g.active_player)
    IN  [g EXCEPT
           !.round = new_round,
           !.phase = "Roll",
           !.players[a].phase = "PASSIVE_WAIT_PHASE",
           !.players[a].dices = from_empty(ActualElems),
           !.players[a].hand_cards = CardsAdd(@, drawn_a),
           !.players[a].deck_cards = CardsSub(@, drawn_a),
           !.players[o].phase = "PASSIVE_WAIT_PHASE",
           !.players[o].dices = from_empty(ActualElems),
           !.players[o].hand_cards = CardsAdd(@, drawn_o),
           !.players[o].deck_cards = CardsSub(@, drawn_o)]

\* EndPhase._end_game
_end_game(g) == [g EXCEPT !.phase = "GameEnd"]

\* EndPhase._is_executing_effects
_is_executing_effects(g) ==
    /\ g.effect_stack # <<>>
    /\ peek(g.effect_stack).name # "DeathSwapPhaseStartEffect"

\* EndPhase._execute_effect
_execute_effect(g, react) ==
    LET popped == pop(g.effect_stack)
        new_game_state == [g EXCEPT !.effect_stack = popped.effect_stack]
    IN  execute(popped.effect, new_game_state, react)

\* the round limit is reached one round early
stepMut(g, react, drawn_a, drawn_o) ==
    LET p1 == g.players["P1"].phase
        p2 == g.players["P2"].phase
    IN  IF p1 = "PASSIVE_WAIT_PHASE" /\ p2 = "PASSIVE_WAIT_PHASE"
        THEN _initialize_end_phase(g)
        ELSE IF p1 \in {"ACTIVE_WAIT_PHASE", "ACTION_PHASE"}
                \/ p2 \in {"ACTIVE_WAIT_PHASE", "ACTION_PHASE"}
        THEN IF ~_is_executing_effects(g) THEN Raise("AssertionError")
             ELSE _execute_effect(g, react)
        ELSE IF g.round + 1 >= ROUND_LIMIT THEN _end_game(g)
        ELSE _to_roll_phase(g, g.round + 1, drawn_a, drawn_o)

\* EndPhase.step
step(g, react, drawn_a, drawn_o) ==
    LET p1 == g.players["P1"].phase
        p2 == g.players["P2"].phase
    IN  IF p1 = "PASSIVE_WAIT_PHASE" /\ p2 = "PASSIVE_WAIT_PHASE"
        THEN _initialize_end_phase(g)
        ELSE IF p1 = "ACTIVE_WAIT_PHASE" \/ p2 = "ACTIVE_WAIT_PHASE"
        THEN IF ~_is_executing_effects(g) THEN Raise("AssertionError")
             ELSE _execute_effect(g, react)
        ELSE IF p1 = "ACTION_PHASE" \/ p2 = "ACTION_PHASE"
        THEN IF ~_is_executing_effects(g) THEN Raise("AssertionError")
             ELSE _execute_effect(g, react)
        ELSE IF p1 = "END_PHASE" /\ p2 = "END_PHASE"
        THEN LET new_round == g.round + 1 IN
             IF new_round > ROUND_LIMIT THEN _end_game(g)
             ELSE _to_roll_phase(g, new_round, drawn_a, drawn_o)
        ELSE Raise("Unknown Game State to process")

\* EndPhase._handle_death_swap_action: the effect is built from one
\* StaticTarget, the character the action names
_handle_death_swap_action(g, pid, action) ==
    LET active_character == get_active_character(get_player(g, pid)) IN
    IF ~IsCharacter(active_character) THEN Raise("AssertionError")
    ELSE [g EXCEPT !.effect_stack = push_one(@,
            [name |-> "SwapCharacterEffect",
             target |-> [pid |-> pid, zone |-> "CHARACTERS",
                         id |-> action.char_id]])]

\* EndPhase.step_action
step_action(g, pid, action) ==
    LET effect_stack == g.effect_stack
        unmarked ==
            IF /\ effect_stack # <<>>
               /\ peek(effect_stack).name = "DeathSwapPhaseStartEffect"
            THEN [g EXCEPT !.effect_stack = pop(effect_stack).effect_stack]
            ELSE g
    IN  IF action.type = "DeathSwapAction"
        THEN _handle_death_swap_action(unmarked, pid, action)
        ELSE Raise("NotImplementedError")

\* Phase.waiting_for: the player whose tag is ACTION_PHASE
Phase_waiting_for(g) ==
    IF g.players["P1"].phase = "ACTION_PHASE" THEN "P1"
    ELSE IF g.players["P2"].phase = "ACTION_PHASE" THEN "P2"
    ELSE NoPid

\* waiting_for that never waits
waiting_forMut(g) == NoPid

\* EndPhase.waiting_for
waiting_for(g) ==
    IF /\ g.effect_stack # <<>>
       /\ peek(g.effect_stack).name = "DeathSwapPhaseStartEffect"
    THEN Phase_waiting_for(g)
    ELSE NoPid


---------------------------------------------------------------------------
(* The End phase run by the state machine: one snapshot, stepped until the *)
(* phase is left or a call raises                                          *)

NumChars == 2        \* characters of a player
CharMaxHp == 2       \* max_hp of every character
CharMaxEnergy == 1   \* max_energy of every character
NumCards == 2        \* copies of a card in the first player's deck

Pids == {"P1", "P2"}
CardNames == {"A", "B"}

\* a character as the factory of its class builds it
Character(id, hp, cs, es, ts) ==
    [id |-> id, hp |-> hp, max_hp |-> CharMaxHp,
     energy |-> 0, max_energy |-> CharMaxEnergy, elemental_aura |-> <<>>,
     character_statuses |-> cs, equipment_statuses |-> es,
     talent_statuses |-> ts]

\* a player in the tag PASSIVE_WAIT_PHASE, the first character active
Player(characters, dices, deck) ==
    [phase |-> "PASSIVE_WAIT_PHASE", characters |-> characters,
     active_character_id |-> 1, dices |-> dices,
     hand_cards |-> [c \in CardNames |-> 0], deck_cards |-> deck,
     combat_statuses |-> <<>>, summons |-> <<>>, supports |-> <<>>]

\* the characters past the first: alive, without statuses
Bench(hp) == [i \in 1..(NumChars - 1) |-> Character(i + 1, hp, <<>>, <<>>, <<>>)]

\* the rounds an End phase is watched in: an early one and the last two
Rounds == {1, ROUND_LIMIT - 1, ROUND_LIMIT}

\* the actions an agent may hand in
DeathSwapAction(char_id) == [type |-> "DeathSwapAction", char_id |-> char_id]
EndRoundAction == [type |-> "EndRoundAction"]
PlayerActions == {DeathSwapAction(i) : i \in 1..NumChars} \cup {EndRoundAction}

\* what status.react_to_signal(target, signal) may return: the effects a
\* character status answers a signal with
Reactions(self) ==
    LET t == self.target
        m == [pid |-> t.pid, zone |-> "SUMMONS", id |-> t.id]
    IN  { <<>>,
          << [name |-> "RemoveCharacterStatusEffect", target |-> t,
              status |-> self.status] >>,
          << [name |-> "RecoverHPEffect", target |-> t, recovery |-> 1],
             [name |-> "EnergyRechargeEffect", target |-> t, recharge |-> 1] >>,
          << [name |-> "EnergyDrainEffect", target |-> t, drain |-> 1] >>,
          << [name |-> "DamageEffect", source |-> t, target |-> "OPPO_ACTIVE",
              element |-> "PYRO", damage |-> 1, reaction |-> [reaction |-> NoReaction]],
             [name |-> "DeathCheckCheckerEffect"] >>,
          << [name |-> "RemoveDiceEffect", pid |-> t.pid,
              dices |-> [from_empty(ActualElems) EXCEPT !["OMNI"] = 1]] >>,
          << [name |-> "AddStatusEffect", target |-> t, status |-> "Shield"],
             [name |-> "UpdateStatusEffect", target |-> t,
              new_status |-> [type |-> self.status, usages |-> 2]] >>,
          << [name |-> "TriggerStatusEffect", target |-> m,
              status |-> self.status, signal |-> self.signal],
             [name |-> "RemoveCharacterStatusEffect", target |-> m,
              status |-> self.status],
             [name |-> "EnergyRechargeEffect", target |-> m, recharge |-> 1],
             [name |-> "EnergyDrainEffect", target |-> m, drain |-> 1],
             [name |-> "RecoverHPEffect", target |-> m, recovery |-> 1] >>,
          << [name |-> "AddStatusEffect", target |-> m, status |-> "Satiated"] >>,
          << [name |-> "UpdateStatusEffect", target |-> m,
              new_status |-> NewStatus(self.status)] >> }

\* the reactions the next step can meet: only a TriggerStatusEffect at the
\* front that finds its character status asks the status
ReactChoices(g) ==
    IF /\ g.effect_stack # <<>>
       /\ peek(g.effect_stack).name = "TriggerStatusEffect"
       /\ StatusKind(peek(g.effect_stack).status) = "CharacterStatus"
       /\ IsCharacter(get_target(g, peek(g.effect_stack).target))
       /\ find(get_target(g, peek(g.effect_stack).target).character_statuses,
               peek(g.effect_stack).status) # NoStatus
    THEN Reactions(peek(g.effect_stack))
    ELSE {<<>>}

\* the cards the next step can draw for player pid: only the step that
\* leaves for the Roll phase draws
DrawChoices(g, pid) ==
    IF /\ g.players["P1"].phase = "END_PHASE"
       /\ g.players["P2"].phase = "END_PHASE"
       /\ g.round + 1 <= ROUND_LIMIT
    THEN pick_random_cards(g.players[pid].deck_cards, _CARDS_DRAWN)
    ELSE {[c \in CardNames |-> 0]}

\* the End phase is entered: the Action phase has left both tags
\* PASSIVE_WAIT_PHASE and the effect stack empty
Init ==
    /\ \E round \in Rounds, active \in Pids,
          hp1 \in 1..CharMaxHp, hp2 \in 1..CharMaxHp, bench2 \in {0, CharMaxHp} :
          gs = [phase |-> "End", round |-> round, active_player |-> active,
                effect_stack |-> <<>>,
                players |->
                  [pid \in Pids |->
                     IF pid = "P1"
                     THEN Player(
                            <<Character(1, hp1, <<NewStatus("Satiated")>>,
                                        <<NewStatus("Artifact")>>, <<>>)>>
                                \o Bench(CharMaxHp),
                            [from_empty(ActualElems) EXCEPT !["OMNI"] = 1],
                            [c \in CardNames |-> IF c = "A" THEN NumCards ELSE 1])
                     ELSE Player(
                            <<Character(1, hp2, <<NewStatus("Shield")>>,
                                        <<>>, <<NewStatus("Talent")>>)>>
                                \o Bench(bench2),
                            [from_empty(ActualElems) EXCEPT !["OMNI"] = 1,
                                                           !["PYRO"] = 1],
                            [c \in CardNames |-> IF c = "A" THEN 1 ELSE 0])]]
    /\ fault = NoFault
    /\ last = [op |-> "new"]
    /\ ran = <<>>
    /\ held = from_empty(ActualElems)
    /\ heldKeys = _LEGAL_ELEMS_ORDERED
    /\ requirement = from_empty(AbstractElems)
    /\ pureIter = Tail(_LEGAL_ELEMS_ORDERED)
    /\ answer = None
    /\ can = FALSE
    /\ dpc = "idle"

\* the effect the next step executes, if it executes one
NoEffect == [name |-> "NoEffect"]
Executing(g) ==
    /\ ~ (g.players["P1"].phase = "PASSIVE_WAIT_PHASE"
          /\ g.players["P2"].phase = "PASSIVE_WAIT_PHASE")
    /\ \/ g.players["P1"].phase \in {"ACTIVE_WAIT_PHASE", "ACTION_PHASE"}
       \/ g.players["P2"].phase \in {"ACTIVE_WAIT_PHASE", "ACTION_PHASE"}
    /\ _is_executing_effects(g)
NextEffect(g) == IF Executing(g) THEN peek(g.effect_stack) ELSE NoEffect

\* the place of a scheduled effect in the End phase's sequence, 0 for the rest
Milestone(g, effect) ==
    IF effect.name = "AllStatusTriggererEffect"
    THEN (IF effect.signal = "END_ROUND_CHECK_OUT" THEN 1 ELSE 3)
            + (IF effect.pid = g.active_player THEN 0 ELSE 1)
    ELSE IF effect.name = "SetBothPlayerPhaseEffect" THEN 5
    ELSE 0

\* GameStateMachine: nobody is waited for, so the phase steps
Step ==
    /\ fault = NoFault
    /\ gs.phase = "End"
    /\ waiting_for(gs) = NoPid
    /\ \E react \in ReactChoices(gs),
          drawn_a \in DrawChoices(gs, gs.active_player),
          drawn_o \in DrawChoices(gs, other(gs.active_player)) :
          \E r \in {step(gs, react, drawn_a, drawn_o)} :
          /\ gs' = IF Raised(r) THEN gs ELSE r
          /\ fault' = IF Raised(r) THEN r.exception ELSE NoFault
          /\ last' = [op |-> "step", effect |-> NextEffect(gs), react |-> react,
                      ret |-> IF Raised(r) THEN "raised" ELSE "state"]
    /\ \E place \in {Milestone(gs, NextEffect(gs))} :
          ran' = IF place > 0 THEN Append(ran, place) ELSE ran
    /\ UNCHANGED diceVars

\* GameStateMachine: the player waited for hands in an action
StepAction ==
    /\ fault = NoFault
    /\ gs.phase = "End"
    /\ waiting_for(gs) # NoPid
    /\ \E action \in PlayerActions :
          \E pid \in {waiting_for(gs)} :
          \E r \in {step_action(gs, pid, action)} :
              /\ gs' = IF Raised(r) THEN gs ELSE r
              /\ fault' = IF Raised(r) THEN r.exception ELSE NoFault
              /\ last' = [op |-> "step_action", pid |-> pid, action |-> action,
                          ret |-> IF Raised(r) THEN "raised" ELSE "state"]
    /\ UNCHANGED ran
    /\ UNCHANGED diceVars

Next == Step \/ StepAction

Spec == Init /\ [][Next]_vars


---------------------------------------------------------------------------
(* Claims about the effects and the End phase *)

BothTags(g, tag) ==
    g.players["P1"].phase = tag /\ g.players["P2"].phase = tag

SentinelAtFront(g) ==
    /\ g.effect_stack # <<>>
    /\ Head(g.effect_stack).name = "DeathSwapPhaseStartEffect"

\* the effects at the front of the stack after a step that were not pending
\* before it
PushedBy(before, after) ==
    SubSeq(after, 1, Len(after) - Len(Tail(before)))

\* C4: a step that executes an effect pops the front effect, leaves the
\* effects that were pending behind everything the execution pushes, and the
\* pushed effects stand in the order they were pushed: the reaction of a
\* status as the status returned it, the triggers of a player's statuses in
\* the order the statuses are visited.
EffectStackIsWorkList ==
    [][ (last'.op = "step" /\ last'.ret = "state" /\ Executing(gs)) =>
          LET popped == Head(gs.effect_stack)
              pending == Tail(gs.effect_stack)
              pushed == PushedBy(gs.effect_stack, gs'.effect_stack)
              visited == _loopAllStatuses(gs, popped.pid)
          IN  /\ last'.effect = popped
              /\ Len(gs'.effect_stack) >= Len(pending)
              /\ gs'.effect_stack = pushed \o pending
              /\ popped.name = "TriggerStatusEffect" => pushed = last'.react
              /\ popped.name = "AllStatusTriggererEffect" =>
                    /\ Len(pushed) = Len(visited)
                    /\ \A i \in 1..Len(visited) :
                          /\ pushed[i].name = "TriggerStatusEffect"
                          /\ pushed[i].target = visited[i].target
                          /\ pushed[i].status = visited[i].status.type
                          /\ pushed[i].signal = popped.signal
      ]_vars

\* a status reacted with two effects while other effects were pending: the
\* two stand at the front, in their order, before the pending ones
EffectStackIsWorkListWitness ==
    /\ last.op = "step" /\ last.ret = "state"
    /\ last.effect.name = "TriggerStatusEffect"
    /\ Len(last.react) >= 2
    /\ Len(gs.effect_stack) > Len(last.react)
    /\ SubSeq(gs.effect_stack, 1, Len(last.react)) = last.react

\* the effects that address a character through a StaticTarget
TargetedEffects ==
    {"TriggerStatusEffect", "RemoveCharacterStatusEffect",
     "EnergyRechargeEffect", "EnergyDrainEffect", "RecoverHPEffect",
     "AddStatusEffect", "UpdateStatusEffect"}

Fizzles(g, effect) ==
    /\ effect.name \in TargetedEffects
    /\ ~IsCharacter(get_target(g, effect.target))

\* C5: executing an effect whose StaticTarget resolves to no character
\* returns the state it was given (the stack without the effect) and does
\* not raise.
FizzleIsSilent ==
    [][ (last'.op = "step" /\ Fizzles(gs, NextEffect(gs))) =>
          /\ last'.ret = "state"
          /\ fault' = NoFault
          /\ gs' = [gs EXCEPT !.effect_stack = Tail(@)]
      ]_vars

\* C6: a RemoveDiceEffect for dice the player does not hold raises and gives
\* no state; for dice the player holds it takes exactly them from the pool
\* and changes nothing else.
RemoveDiceIsExact ==
    [][ (last'.op = "step" /\ NextEffect(gs).name = "RemoveDiceEffect") =>
          LET effect == NextEffect(gs)
              pool == gs.players[effect.pid].dices
          IN  IF \A k \in DOMAIN pool : effect.dices[k] <= pool[k]
              THEN /\ last'.ret = "state"
                   /\ fault' = NoFault
                   /\ gs' = [gs EXCEPT
                               !.effect_stack = Tail(@),
                               !.players[effect.pid].dices =
                                   [k \in DOMAIN pool |-> pool[k] - effect.dices[k]]]
              ELSE /\ last'.ret = "raised"
                   /\ fault' # NoFault
                   /\ gs' = gs
      ]_vars

\* an OMNI die was removed from a pool that held one, and the next removal
\* from the emptied pool raised
RemoveDiceIsExactWitness ==
    /\ last.op = "step" /\ last.ret = "raised"
    /\ last.effect.name = "RemoveDiceEffect"
    /\ fault = "Not enough dices for this effect"
    /\ gs.players[last.effect.pid].dices["OMNI"] = 0

\* C7: step_action given an action that is not a DeathSwapAction answers
\* with a rejection and does not raise.
IllegalActionIsRejected ==
    (last.op = "step_action" /\ last.action.type # "DeathSwapAction") =>
        (last.ret = "rejected" /\ fault = NoFault)

\* the order the End phase schedules
Scheduled == <<1, 2, 3, 4, 5>>

\* C8: the scheduled effects of the End phase run in the order
\* END_ROUND_CHECK_OUT for the active player, for the other player, ROUND_END
\* for the active player, for the other player, then the setting of both
\* tags; each starts only when everything the ones before it pushed has
\* drained, and both tags are END only after all five have run.
EndPhaseOrder ==
    /\ Len(ran) <= Len(Scheduled)
    /\ ran = SubSeq(Scheduled, 1, Len(ran))
    /\ BothTags(gs, "END_PHASE") => (ran = Scheduled /\ gs.effect_stack = <<>>)
    /\ (gs.phase = "End" /\ gs.effect_stack # <<>>
            /\ Milestone(gs, Head(gs.effect_stack)) > 0) =>
          /\ Milestone(gs, Head(gs.effect_stack)) = Len(ran) + 1
          /\ \A i \in 2..Len(gs.effect_stack) :
                gs.effect_stack[i].name \in
                    {"AllStatusTriggererEffect", "EndRoundEffect",
                     "SetBothPlayerPhaseEffect"}

\* the End phase ran to its end through a reaction that removed a status
\* and through a death swap of the second player
EndPhaseOrderWitness ==
    /\ BothTags(gs, "END_PHASE")
    /\ ran = Scheduled
    /\ gs.players["P1"].characters[1].character_statuses = <<>>
    /\ gs.players["P2"].active_character_id = 2

\* C9: the step taken with both tags END ends the game exactly when
\* round + 1 exceeds the round limit and otherwise enters the Roll phase
\* with the round one higher; the End phase leads to no third phase.
EndPhaseExit ==
    [][ /\ gs'.phase \in {"End", "Roll", "GameEnd"}
        /\ (last'.op = "step" /\ gs.phase = "End" /\ BothTags(gs, "END_PHASE")) =>
              /\ (gs'.phase = "GameEnd") <=> (gs.round + 1 > ROUND_LIMIT)
              /\ gs.round + 1 <= ROUND_LIMIT =>
                    (gs'.phase = "Roll" /\ gs'.round = gs.round + 1)
              /\ gs'.phase = "GameEnd" => gs'.round = gs.round
      ]_vars

\* the End phase of the round before the limit left for the Roll phase of
\* the last round
EndPhaseExitWitness ==
    /\ gs.phase = "Roll"
    /\ gs.round = ROUND_LIMIT
    /\ last.op = "step"

\* the player a death check finds: the first whose active character is
\* defeated
Found(g) ==
    IF defeated(get_active_character(g.players["P1"])) THEN "P1"
    ELSE IF defeated(get_active_character(g.players["P2"])) THEN "P2"
    ELSE NoPid

\* C10: a death check that finds a defeated active character of a player
\* with a live character puts the sentinel at the front and the game waits
\* for that player; while the sentinel is at the front nothing is executed
\* and only a DeathSwapAction of that player takes it away; with anything
\* else at the front the End phase waits for nobody.
DeathSwapWait ==
    [][ /\ (last'.op = "step"
              /\ NextEffect(gs).name = "DeathCheckCheckerEffect"
              /\ Found(gs) # NoPid
              /\ ~player_defeated(gs.players[Found(gs)])) =>
                  /\ SentinelAtFront(gs')
                  /\ waiting_for(gs') = Found(gs)
        /\ (gs.phase = "End" /\ SentinelAtFront(gs)) =>
              /\ waiting_for(gs) \in Pids
              /\ defeated(get_active_character(gs.players[waiting_for(gs)]))
              /\ last'.op = "step_action"
              /\ last'.pid = waiting_for(gs)
              /\ SentinelAtFront(gs') => waiting_for(gs') = waiting_for(gs)
              /\ ~SentinelAtFront(gs') => last'.action.type = "DeathSwapAction"
        /\ (gs.phase = "End" /\ ~SentinelAtFront(gs)) => waiting_for(gs) = NoPid
      ]_vars

\* the second player's active character fell, the game waited for the
\* second player, and the swap was handed in
DeathSwapWaitWitness ==
    /\ last.op = "step_action" /\ last.ret = "state"
    /\ last.pid = "P2"
    /\ last.action.type = "DeathSwapAction"
    /\ defeated(get_active_character(gs.players["P2"]))
    /\ ~SentinelAtFront(gs)
    /\ gs.effect_stack # <<>>
    /\ Head(gs.effect_stack).name = "SwapCharacterEffect"


\* C11: on the way to the end of the game the round counter passes the round
\* limit by at most one and no call raises, whatever action the player waited
\* for hands in.
GameRunsWithoutFault ==
    /\ gs.round <= ROUND_LIMIT + 1
    /\ last.op = "step_action" => fault = NoFault

---------------------------------------------------------------------------
(* Turns of the Action phase: the acting player's action pushes effects,   *)
(* the phase executes them one by one, a death swap interrupts them        *)

\* the effects an action of player pid may push: the end of the turn alone,
\* or a hit on the opposing or on the own active character with one or two
\* death checks, before or after the end of the turn
TurnEffects(pid) ==
    LET hit(by) == [name |-> "DamageEffect",
                    source |-> [pid |-> by, zone |-> "CHARACTER", id |-> 1],
                    target |-> "OPPO_ACTIVE", element |-> "PYRO", damage |-> 1,
                    reaction |-> [reaction |-> NoReaction]]
        check == [name |-> "DeathCheckCheckerEffect"]
        turn_end == [name |-> "TurnEndEffect"]
    IN  { <<turn_end>>,
          <<hit(pid), check, turn_end>>,
          <<hit(other(pid)), check, turn_end>>,
          <<hit(pid), check, check, turn_end>>,
          <<hit(pid), turn_end, check>>,
          <<hit(other(pid)), hit(pid), check, turn_end, check>> }

\* the Action phase is entered: one player acts, the other waits or has
\* ended the round
InitTurns ==
    /\ \E active \in Pids, tag \in {"PASSIVE_WAIT_PHASE", "END_PHASE"},
          hp1 \in 1..CharMaxHp, hp2 \in 1..CharMaxHp,
          bench1 \in {0, CharMaxHp}, bench2 \in {0, CharMaxHp} :
          gs = [phase |-> "Action", round |-> 1, active_player |-> active,
                effect_stack |-> <<>>,
                players |->
                  [pid \in Pids |->
                     [Player(<<Character(1, IF pid = "P1" THEN hp1 ELSE hp2,
                                         <<>>, <<>>, <<>>)>>
                                \o Bench(IF pid = "P1" THEN bench1 ELSE bench2),
                             from_empty(ActualElems),
                             [c \in CardNames |-> 0])
                      EXCEPT !.phase = IF pid = active THEN "ACTION_PHASE"
                                       ELSE tag]]]
    /\ fault = NoFault
    /\ last = [op |-> "new"]
    /\ ran = <<>>
    /\ held = from_empty(ActualElems)
    /\ heldKeys = _LEGAL_ELEMS_ORDERED
    /\ requirement = from_empty(AbstractElems)
    /\ pureIter = Tail(_LEGAL_ELEMS_ORDERED)
    /\ answer = None
    /\ can = FALSE
    /\ dpc = "idle"

\* the acting player hands in an action; its effects go onto the stack
TurnAct ==
    /\ fault = NoFault
    /\ gs.phase = "Action"
    /\ gs.effect_stack = <<>>
    /\ gs.players[gs.active_player].phase = "ACTION_PHASE"
    /\ \E effects \in TurnEffects(gs.active_player) :
          /\ gs' = PushEffects(gs, effects)
          /\ last' = [op |-> "act", pid |-> gs.active_player]
    /\ UNCHANGED <<fault, ran>>
    /\ UNCHANGED diceVars

\* the phase executes the effect at the front of the stack; ran keeps the
\* tags the players had before each death check whose swap is not completed
TurnStep ==
    /\ fault = NoFault
    /\ gs.phase = "Action"
    /\ gs.effect_stack # <<>>
    /\ ~SentinelAtFront(gs)
    /\ \E r \in {_execute_effect(gs, <<>>)} :
          /\ gs' = IF Raised(r) THEN gs ELSE r
          /\ fault' = IF Raised(r) THEN r.exception ELSE NoFault
          /\ last' = [op |-> "step", effect |-> peek(gs.effect_stack),
                      react |-> <<>>,
                      ret |-> IF Raised(r) THEN "raised" ELSE "state"]
    /\ \E effect \in {peek(gs.effect_stack)} :
          ran' = IF effect.name = "DeathCheckCheckerEffect" /\ SentinelAtFront(gs')
                 THEN Append(ran, [pid \in Pids |-> gs.players[pid].phase])
                 ELSE IF effect.name = "DeathSwapPhaseEndEffect" /\ ran # <<>>
                 THEN SubSeq(ran, 1, Len(ran) - 1)
                 ELSE ran
    /\ UNCHANGED diceVars

\* the player whose active character fell names the next active character
TurnDeathSwap ==
    /\ fault = NoFault
    /\ gs.phase = "Action"
    /\ SentinelAtFront(gs)
    /\ \E pid \in {Phase_waiting_for(gs)}, char_id \in 1..NumChars :
       \E r \in {step_action(gs, pid, DeathSwapAction(char_id))} :
          /\ pid # NoPid
          /\ gs' = IF Raised(r) THEN gs ELSE r
          /\ fault' = IF Raised(r) THEN r.exception ELSE NoFault
          /\ last' = [op |-> "step_action", pid |-> pid,
                      action |-> DeathSwapAction(char_id),
                      ret |-> IF Raised(r) THEN "raised" ELSE "state"]
    /\ UNCHANGED ran
    /\ UNCHANGED diceVars

NextTurns == TurnAct \/ TurnStep \/ TurnDeathSwap

SpecTurns == InitTurns /\ [][NextTurns]_vars

\* C12: the two players never both hold the tag ACTION_PHASE.
OnePlayerActs ==
    ~ BothTags(gs, "ACTION_PHASE")

\* a death swap of the player who was not acting has been resolved and
\* then the turn has passed to that player
OnePlayerActsWitness ==
    /\ gs.phase = "Action"
    /\ last.op = "step" /\ last.ret = "state"
    /\ last.effect.name = "TurnEndEffect"
    /\ \E pid \in Pids :
          /\ gs.players[pid].phase = "ACTION_PHASE"
          /\ gs.players[other(pid)].phase = "PASSIVE_WAIT_PHASE"
          /\ gs.active_player = pid
          /\ gs.players[pid].active_character_id # 1

---------------------------------------------------------------------------
(* Damage and recovery: effects are executed one at a time on a state      *)
(* whose active characters hold auras and shields                          *)

MaxAmount == 2       \* the largest damage or recovery of an effect

\* the auras an active character starts with, in stored order
Auras == { <<>>, <<"HYDRO">>, <<"CRYO", "DENDRO">>, <<"DENDRO", "CRYO">> }

\* the elements of the damage dealt
DamageElements == {"PYRO", "GEO", "PHYSICAL"}

\* the active character of a player with an aura and, possibly, a shield
Fighter(hp, aura, shielded) ==
    [Character(1, hp, IF shielded THEN <<NewStatus("Shield")>> ELSE <<>>,
               <<>>, <<>>)
     EXCEPT !.elemental_aura = aura]

\* the Action phase with an empty effect stack
InitDamage ==
    /\ \E hp1 \in 1..CharMaxHp, hp2 \in 1..CharMaxHp,
          aura1 \in Auras, aura2 \in Auras,
          shielded1 \in BOOLEAN, shielded2 \in BOOLEAN :
          gs = [phase |-> "Action", round |-> 1, active_player |-> "P1",
                effect_stack |-> <<>>,
                players |->
                  [pid \in Pids |->
                     [Player(<<IF pid = "P1"
                               THEN Fighter(hp1, aura1, shielded1)
                               ELSE Fighter(hp2, aura2, shielded2)>>
                                \o Bench(CharMaxHp),
                             from_empty(ActualElems),
                             [c \in CardNames |-> 0])
                      EXCEPT !.phase = IF pid = "P1" THEN "ACTION_PHASE"
                                       ELSE "PASSIVE_WAIT_PHASE"]]]
    /\ fault = NoFault
    /\ last = [op |-> "new"]
    /\ ran = <<>>
    /\ held = from_empty(ActualElems)
    /\ heldKeys = _LEGAL_ELEMS_ORDERED
    /\ requirement = from_empty(AbstractElems)
    /\ pureIter = Tail(_LEGAL_ELEMS_ORDERED)
    /\ answer = None
    /\ can = FALSE
    /\ dpc = "idle"

\* DamageEffect.execute: one DamageEffect whose source is the first character
\* of a player is executed on the state, on its own
Hit ==
    /\ fault = NoFault
    /\ gs.phase = "Action"
    /\ \E pid \in Pids, element \in DamageElements, damage \in 0..MaxAmount :
       \E effect \in {[name |-> "DamageEffect",
                       source |-> [pid |-> pid, zone |-> "CHARACTER", id |-> 1],
                       target |-> "OPPO_ACTIVE", element |-> element,
                       damage |-> damage,
                       reaction |-> [reaction |-> NoReaction]]} :
       \E r \in {execute(effect, gs, <<>>)} :
          /\ gs' = IF Raised(r) THEN gs ELSE r
          /\ fault' = IF Raised(r) THEN r.exception ELSE NoFault
          /\ last' = [op |-> "damage", effect |-> effect,
                      ret |-> IF Raised(r) THEN "raised" ELSE "state"]
    /\ UNCHANGED ran
    /\ UNCHANGED diceVars

\* a RecoverHPEffect on a character is executed
Recover ==
    /\ fault = NoFault
    /\ gs.phase = "Action"
    /\ \E pid \in Pids, id \in 1..NumChars, recovery \in 0..MaxAmount :
       \E effect \in {[name |-> "RecoverHPEffect",
                       target |-> [pid |-> pid, zone |-> "CHARACTER", id |-> id],
                       recovery |-> recovery]} :
       \E r \in {execute(effect, gs, <<>>)} :
          /\ gs' = IF Raised(r) THEN gs ELSE r
          /\ fault' = IF Raised(r) THEN r.exception ELSE NoFault
          /\ last' = [op |-> "recover", effect |-> effect,
                      ret |-> IF Raised(r) THEN "raised" ELSE "state"]
    /\ UNCHANGED ran
    /\ UNCHANGED diceVars

NextDamage == Hit \/ Recover

SpecDamage == InitDamage /\ [][NextDamage]_vars

\* the character a DamageEffect from player pid hits, in state g
Struck(g, pid) == get_active_character(get_other_player(g, pid))

\* the amount of a damage after the passes of the amount confirmation
Confirmed(g, effect) ==
    _damage_confirmation(
        _reaction_confirmation(_element_confirmation(g, effect))).damage

\* C13: a DamageEffect of an aurable element on an opposing active character
\* without aura leaves the element as the character's aura, the HP at
\* max(0, old HP - amount after preprocessing) and no reaction on the damage.
DamageOnEmptyAura ==
    [][(/\ last'.op = "damage" /\ last'.ret = "state"
        /\ aurable(<<>>, last'.effect.element)
        /\ Struck(gs, last'.effect.source.pid).elemental_aura = <<>>)
       => (/\ Struck(gs', last'.effect.source.pid).elemental_aura
                = <<last'.effect.element>>
           /\ Struck(gs', last'.effect.source.pid).hp
                = Max(0, Struck(gs, last'.effect.source.pid).hp
                         - Confirmed(gs, last'.effect).damage)
           /\ Confirmed(gs, last'.effect).reaction.reaction = NoReaction)]_vars

\* the places of the aura tags of a character that react with an element
Reacting(character, element) ==
    {i \in 1..Len(character.elemental_aura) :
        consult_reaction(character.elemental_aura[i], element) # NoReaction}

\* C14: when the aura of the target holds a tag that reacts with the
\* incoming element, the first such tag in stored order is selected, it is
\* gone from the target's aura in the resulting state, the incoming element
\* is not added, and the reaction, the aura element and the incoming element
\* are on the damage that enters the amount confirmation.
DamageOnReactingAura ==
    [][(/\ last'.op = "damage" /\ last'.ret = "state"
        /\ Reacting(Struck(gs, last'.effect.source.pid),
                    last'.effect.element) # {})
       => \E i \in Reacting(Struck(gs, last'.effect.source.pid),
                            last'.effect.element) :
          \E first_elem \in {Struck(gs, last'.effect.source.pid).elemental_aura[i]} :
            /\ \A j \in Reacting(Struck(gs, last'.effect.source.pid),
                                 last'.effect.element) : i <= j
            /\ _reaction_confirmation(
                    _element_confirmation(gs, last'.effect)).damage.reaction
                 = [reaction |-> consult_reaction(first_elem, last'.effect.element),
                    first_elem |-> first_elem,
                    second_elem |-> last'.effect.element]
            /\ Struck(gs', last'.effect.source.pid).elemental_aura
                 = SelectSeq(Struck(gs, last'.effect.source.pid).elemental_aura,
                             LAMBDA e : e # first_elem)]_vars


\* the hp of every character lies within 0..max_hp
HPInRange(g) ==
    \A pid \in Pids : \A i \in 1..Len(g.players[pid].characters) :
        /\ g.players[pid].characters[i].hp >= 0
        /\ g.players[pid].characters[i].hp <= g.players[pid].characters[i].max_hp

\* C15: after any sequence of DamageEffect and RecoverHPEffect executions
\* with non-negative amounts every character's HP is within 0..max HP.
HPStaysInRange ==
    HPInRange(gs)

\* a damage larger than the HP left has been floored at zero, and a recovery
\* larger than the HP missing has been capped at max HP
HPStaysInRangeWitness ==
    /\ last.op = "recover" /\ last.ret = "state"
    /\ last.effect.recovery = MaxAmount
    /\ get_target(gs, last.effect.target).hp
         = get_target(gs, last.effect.target).max_hp
    /\ \E pid \in Pids : get_active_character(gs.players[pid]).hp = 0

---------------------------------------------------------------------------
(* Triggering all statuses of a player                                      *)

\* the character statuses a character may hold, in stored order
StatusLists == { <<>>, <<NewStatus("Satiated")>>,
                 <<NewStatus("Satiated"), NewStatus("Shield")>>,
                 <<NewStatus("Shield"), NewStatus("Satiated")>> }

\* a state whose first player holds statuses on its characters and,
\* possibly, a combat status, a summon and a support
InitTrigger ==
    /\ \E cs1 \in StatusLists, cs2 \in StatusLists,
          es \in {<<>>, <<NewStatus("Artifact")>>},
          ts \in {<<>>, <<NewStatus("Talent")>>},
          combat \in {<<>>, <<NewStatus("CombatStatus")>>},
          summons \in {<<>>, <<NewStatus("Summon")>>},
          supports \in {<<>>, <<NewStatus("Support")>>} :
          gs = [phase |-> "Action", round |-> 1, active_player |-> "P1",
                effect_stack |-> <<>>,
                players |->
                  [pid \in Pids |->
                     IF pid = "P1"
                     THEN [Player(
                             [i \in 1..NumChars |->
                                IF i = 1 THEN Character(1, CharMaxHp, cs1, es, <<>>)
                                ELSE IF i = 2 THEN Character(2, CharMaxHp, cs2, <<>>, ts)
                                ELSE Character(i, CharMaxHp, <<>>, <<>>, <<>>)],
                             from_empty(ActualElems), [c \in CardNames |-> 0])
                           EXCEPT !.phase = "ACTION_PHASE",
                                  !.combat_statuses = combat,
                                  !.summons = summons,
                                  !.supports = supports]
                     ELSE Player(<<Character(1, CharMaxHp, <<>>, <<>>, <<>>)>>
                                    \o Bench(CharMaxHp),
                                 from_empty(ActualElems),
                                 [c \in CardNames |-> 0])]]
    /\ fault = NoFault
    /\ last = [op |-> "new"]
    /\ ran = <<>>
    /\ held = from_empty(ActualElems)
    /\ heldKeys = _LEGAL_ELEMS_ORDERED
    /\ requirement = from_empty(AbstractElems)
    /\ pureIter = Tail(_LEGAL_ELEMS_ORDERED)
    /\ answer = None
    /\ can = FALSE
    /\ dpc = "idle"

\* all statuses of a player are triggered with a signal
TriggerAll ==
    /\ fault = NoFault
    /\ \E pid \in Pids, signal \in {"END_ROUND_CHECK_OUT", "ROUND_END"} :
          last' = [op |-> "trigger", pid |-> pid, signal |-> signal,
                   effects |-> _triggerAllStatusesEffects(gs, pid, signal)]
    /\ UNCHANGED <<gs, fault, ran>>
    /\ UNCHANGED diceVars

\* a SwapCharacterEffect makes another character of a player the active one
SwapActive ==
    /\ fault = NoFault
    /\ \E pid \in Pids, id \in 1..NumChars :
       \E effect \in {[name |-> "SwapCharacterEffect",
                       source |-> [pid |-> pid, zone |-> "CHARACTER",
                                   id |-> gs.players[pid].active_character_id],
                       target |-> [pid |-> pid, zone |-> "CHARACTER", id |-> id]]} :
       \E r \in {execute(effect, gs, <<>>)} :
          /\ gs' = IF Raised(r) THEN gs ELSE r
          /\ fault' = IF Raised(r) THEN r.exception ELSE NoFault
          /\ last' = [op |-> "swap", effect |-> effect,
                      ret |-> IF Raised(r) THEN "raised" ELSE "state"]
    /\ UNCHANGED ran
    /\ UNCHANGED diceVars

NextTrigger == TriggerAll \/ SwapActive

SpecTrigger == InitTrigger /\ [][NextTrigger]_vars

RECURSIVE CharacterVisits(_, _)
\* the (status type, character id) pairs of these characters, each
\* character's statuses in stored order
CharacterVisits(pid, characters) ==
    IF characters = <<>> THEN <<>>
    ELSE LET c == Head(characters)
             statuses == c.character_statuses \o c.equipment_statuses
                            \o c.talent_statuses
         IN  [i \in 1..Len(statuses) |->
                 [status |-> statuses[i].type, zone |-> "CHARACTER", id |-> c.id]]
             \o CharacterVisits(pid, Tail(characters))

\* the (status type, zone) pairs of a player-wide collection
ZoneVisits(statuses, zone) ==
    [i \in 1..Len(statuses) |-> [status |-> statuses[i].type, zone |-> zone, id |-> i]]

\* the visits in the order the traversal is said to make them
TraversalOrder(g, pid) ==
    LET player == g.players[pid]
        active == player.characters[player.active_character_id]
        rest == SelectSeq(player.characters, LAMBDA c : c.id # active.id)
    IN  CharacterVisits(pid, <<active>> \o rest)
        \o ZoneVisits(player.combat_statuses, "COMBAT_STATUSES")
        \o ZoneVisits(player.summons, "SUMMONS")
        \o ZoneVisits(player.supports, "SUPPORTS")

\* C16: triggering all statuses of a player visits the characters in
\* activity order, each character's statuses in stored order, then the combat
\* statuses, the summons and the supports; the effect list is in exactly
\* this order and a repeated call on the same state produces it again.
TriggerTraversalOrder ==
    last.op = "trigger" =>
        /\ Len(last.effects) = Len(TraversalOrder(gs, last.pid))
        /\ \A i \in 1..Len(last.effects) :
              /\ i <= Len(TraversalOrder(gs, last.pid))
              /\ last.effects[i].status = TraversalOrder(gs, last.pid)[i].status
              /\ last.effects[i].target.zone = TraversalOrder(gs, last.pid)[i].zone
              /\ last.effects[i].signal = last.signal
        /\ _triggerAllStatusesEffects(gs, last.pid, last.signal) = last.effects

---------------------------------------------------------------------------
(* A Statuses collection under update_statuses and remove                   *)

MaxUsages == 2       \* the largest usages of a status handed to update_statuses

\* the classes of the statuses handed in
StatusTypes == {"Satiated", "Shield", "Artifact", "Talent"}

\* Statuses(()): the empty collection
InitStatuses ==
    /\ gs = [phase |-> "NoGame", statuses |-> <<>>]
    /\ fault = NoFault
    /\ last = [op |-> "new"]
    /\ ran = <<>>
    /\ held = from_empty(ActualElems)
    /\ heldKeys = _LEGAL_ELEMS_ORDERED
    /\ requirement = from_empty(AbstractElems)
    /\ pureIter = Tail(_LEGAL_ELEMS_ORDERED)
    /\ answer = None
    /\ can = FALSE
    /\ dpc = "idle"

\* statuses.update_statuses(new_status)
CallUpdateStatuses ==
    /\ \E type \in StatusTypes, usages \in 1..MaxUsages :
          /\ gs' = [gs EXCEPT !.statuses =
                        update_statuses(@, [type |-> type, usages |-> usages])]
          /\ last' = [op |-> "update_statuses",
                      status |-> [type |-> type, usages |-> usages]]
    /\ UNCHANGED <<fault, ran>>
    /\ UNCHANGED diceVars

\* statuses.remove(status)
CallRemove ==
    /\ \E type \in StatusTypes :
          /\ gs' = [gs EXCEPT !.statuses = remove(@, type)]
          /\ last' = [op |-> "remove", type |-> type]
    /\ UNCHANGED <<fault, ran>>
    /\ UNCHANGED diceVars

\* the depth of nested calls at which the interpreter raises RecursionError
MaxDepth == 4

RECURSIVE Statuses_eq(_, _, _)
\* Statuses.__eq__ at the given depth of nested calls: `self == other`
\* calls Statuses.__eq__ again with the same operands (rhs is `other`)
Statuses_eq(self, rhs, depth) ==
    IF rhs.kind # "Statuses" THEN [value |-> FALSE]
    ELSE IF self.oid = rhs.oid THEN [value |-> TRUE]
    ELSE IF depth >= MaxDepth THEN Raise("RecursionError")
    ELSE Statuses_eq(self, rhs, depth + 1)

\* the collection as an object, and the objects it is compared with: itself,
\* another object with the same statuses, the collection remove returns for
\* a type, and an object that is no collection
Object(oid, kind, statuses) == [oid |-> oid, kind |-> kind, statuses |-> statuses]
Others(statuses) ==
    {Object(1, "Statuses", statuses), Object(2, "Statuses", statuses),
     Object(3, "object", <<>>)}
      \cup {Object(2, "Statuses", remove(statuses, type)) : type \in StatusTypes}

\* statuses == other
CallEq ==
    /\ \E rhs \in Others(gs.statuses) :
       \E r \in {Statuses_eq(Object(1, "Statuses", gs.statuses), rhs, 0)} :
          last' = [op |-> "eq", other |-> rhs,
                   ret |-> IF Raised(r) THEN r.exception
                           ELSE IF r.value THEN "True" ELSE "False"]
    /\ UNCHANGED <<gs, fault, ran>>
    /\ UNCHANGED diceVars

NextStatuses == CallUpdateStatuses \/ CallRemove \/ CallEq

SpecStatuses == InitStatuses /\ [][NextStatuses]_vars

\* the places of a collection that hold a status of a type
PlacesOf(statuses, type) ==
    {i \in 1..Len(statuses) : statuses[i].type = type}

\* at most one status per status type
OnePerType(statuses) ==
    \A i \in 1..Len(statuses), j \in 1..Len(statuses) :
        statuses[i].type = statuses[j].type => i = j

\* C17: a collection built from the empty one by update_statuses and remove
\* holds at most one status per type; update_statuses with a type already
\* present replaces that entry at its place and leaves the other entries and
\* the order as they are, and with a new type appends the status at the end.
StatusesKeepOnePerType ==
    [][/\ OnePerType(gs'.statuses)
       /\ last'.op = "update_statuses" =>
            IF PlacesOf(gs.statuses, last'.status.type) # {}
            THEN /\ Len(gs'.statuses) = Len(gs.statuses)
                 /\ \A i \in 1..Len(gs.statuses) :
                        gs'.statuses[i] =
                            IF gs.statuses[i].type = last'.status.type
                            THEN last'.status ELSE gs.statuses[i]
            ELSE gs'.statuses = Append(gs.statuses, last'.status)]_vars

\* a status in the middle of three has been replaced by one of its type
\* with other usages
StatusesKeepOnePerTypeWitness ==
    /\ gs.phase = "NoGame" /\ "statuses" \in DOMAIN gs
    /\ last.op = "update_statuses"
    /\ Len(gs.statuses) = 3
    /\ gs.statuses[2] = last.status
    /\ last.status.usages = MaxUsages

---------------------------------------------------------------------------
(* The dice pools of the players under removal, payment and the reset of   *)
(* the End phase                                                           *)

\* the kinds of dice in the pools and requirements tried
PoolKinds == {"OMNI", "PYRO", "HYDRO"}
CostKinds == {"OMNI", "PYRO", "ANY"}

\* a dice over some kinds as a dice of a class with the legal elements legal
Widen(dice, legal) == [k \in legal |-> Get(dice, k)]

Pools == {Widen(d, ActualElems) : d \in DiceUpTo(PoolKinds, MaxHeld)}
Costs == {Widen(d, AbstractElems) : d \in DiceUpTo(CostKinds, MaxReq)}

\* the dice a RemoveDiceEffect of its own takes: none or one die, larger
\* removals being sequences of these
Removals == {d \in Pools : num_dice(d) <= 1}

\* the Action phase, each player holding a pool
InitPool ==
    /\ \E pool1 \in Pools, pool2 \in Pools :
          gs = [phase |-> "Action", round |-> 1, active_player |-> "P1",
                effect_stack |-> <<>>,
                players |->
                  [pid \in Pids |->
                     [Player(<<Character(1, CharMaxHp, <<>>, <<>>, <<>>)>>
                                \o Bench(CharMaxHp),
                             IF pid = "P1" THEN pool1 ELSE pool2,
                             [c \in CardNames |-> 0])
                      EXCEPT !.phase = IF pid = "P1" THEN "ACTION_PHASE"
                                       ELSE "PASSIVE_WAIT_PHASE"]]]
    /\ fault = NoFault
    /\ last = [op |-> "new"]
    /\ ran = <<>>
    /\ held = from_empty(ActualElems)
    /\ heldKeys = _LEGAL_ELEMS_ORDERED
    /\ requirement = from_empty(AbstractElems)
    /\ pureIter = Tail(_LEGAL_ELEMS_ORDERED)
    /\ answer = None
    /\ can = FALSE
    /\ dpc = "idle"

\* a RemoveDiceEffect on the pool of a player is executed
PoolRemove ==
    /\ fault = NoFault
    /\ gs.phase = "Action"
    /\ \E pid \in Pids, dices \in Removals :
       \E r \in {execute([name |-> "RemoveDiceEffect", pid |-> pid,
                          dices |-> dices], gs, <<>>)} :
          /\ gs' = IF Raised(r) THEN gs ELSE r
          /\ fault' = IF Raised(r) THEN r.exception ELSE NoFault
          /\ last' = [op |-> "remove", pid |-> pid,
                      ret |-> IF Raised(r) THEN "raised" ELSE "state"]
    /\ UNCHANGED ran
    /\ UNCHANGED diceVars

\* an agent chooses its action: basically_satisfy allocates the dice of a
\* cost from the pool of its player and the action carries them; nothing is
\* taken from the pool yet
PoolChoose ==
    /\ fault = NoFault
    /\ gs.phase = "Action"
    /\ dpc = "idle"
    /\ \E pid \in Pids, cost \in Costs :
       \E keys \in KeyOrdersOf(gs.players[pid].dices),
          iter \in PureOrdersOf(gs.players[pid].dices) :
       \E paid \in {basically_satisfy(gs.players[pid].dices, cost, keys, iter)} :
          /\ answer' = paid
          /\ dpc' = IF paid.some THEN pid ELSE "idle"
          /\ last' = [op |-> "choose", pid |-> pid,
                      ret |-> IF paid.some THEN "dice" ELSE "none"]
    /\ UNCHANGED <<gs, fault, ran>>
    /\ UNCHANGED <<held, heldKeys, requirement, pureIter, can>>

\* the RemoveDiceEffect of the chosen action is executed on the pool as it
\* is by then: it takes the dice the action carries, or raises
PoolPay ==
    /\ fault = NoFault
    /\ dpc \in Pids
    /\ \E r \in {execute([name |-> "RemoveDiceEffect", pid |-> dpc,
                          dices |-> answer.dice], gs, <<>>)} :
          /\ gs' = IF Raised(r) THEN gs ELSE r
          /\ fault' = IF Raised(r) THEN r.exception ELSE NoFault
          /\ last' = [op |-> "pay", pid |-> dpc,
                      ret |-> IF Raised(r) THEN "raised" ELSE "state"]
    /\ answer' = None
    /\ dpc' = "idle"
    /\ UNCHANGED ran
    /\ UNCHANGED <<held, heldKeys, requirement, pureIter, can>>

\* the round is over and the End phase leaves for the Roll phase
PoolReset ==
    /\ fault = NoFault
    /\ gs.phase = "Action"
    /\ gs' = _to_roll_phase(gs, gs.round + 1,
                            [c \in CardNames |-> 0], [c \in CardNames |-> 0])
    /\ last' = [op |-> "reset", pid |-> NoPid, ret |-> "state"]
    /\ UNCHANGED <<fault, ran>>
    /\ UNCHANGED diceVars

NextPool == PoolRemove \/ PoolChoose \/ PoolPay \/ PoolReset

SpecPool == InitPool /\ [][NextPool]_vars

\* C18: in every reachable state the dice pool of each player is legal: no
\* count is negative and every kind is one a player may hold, whatever
\* RemoveDiceEffects, payments allocated by basically_satisfy (with removals
\* and resets between the allocation and the payment) and End-to-Roll resets
\* came before.
PoolsAreLegal ==
    \A pid \in Pids :
        /\ DOMAIN gs.players[pid].dices \subseteq ActualElems
        /\ \A k \in DOMAIN gs.players[pid].dices : gs.players[pid].dices[k] >= 0

\* a payment has emptied the pool of one player while the other player
\* still holds a full pool
PoolsAreLegalWitness ==
    /\ gs.phase = "Action"
    /\ last.op = "pay" /\ last.ret = "state"
    /\ num_dice(gs.players[last.pid].dices) = 0
    /\ num_dice(gs.players[other(last.pid)].dices) = MaxHeld

---------------------------------------------------------------------------
(* Random picks from a dice pool and from a deck                            *)

\* random.sample without the counts of the pool: a kind may be picked more
\* often than the pool holds it
pick_random_diceMut(self, num) ==
    LET n == Min(num_dice(self), num) IN
    IF n = 0 THEN {[left |-> self, picked |-> from_empty(DOMAIN self)]}
    ELSE {[left |-> DiceSub(self, picked), picked |-> picked] :
            picked \in {p \in DiceUpTo(DOMAIN self, n) : num_dice(p) = n}}

\* Dice.pick_random_dice: the (left, picked) pairs random.sample can produce
pick_random_dice(self, num) ==
    LET n == Min(num_dice(self), num) IN
    IF n = 0 THEN {[left |-> self, picked |-> from_empty(DOMAIN self)]}
    ELSE {[left |-> DiceSub(self, picked), picked |-> picked] :
            picked \in {p \in SubDice(self) : num_dice(p) = n}}

\* the decks a player may hold
Decks == [CardNames -> 0..NumCards]

\* a pool and a deck to pick from
InitPick ==
    /\ held \in Pools
    /\ \E deck \in Decks : gs = [phase |-> "NoGame", deck |-> deck]
    /\ heldKeys = _LEGAL_ELEMS_ORDERED
    /\ requirement = from_empty(AbstractElems)
    /\ pureIter = Tail(_LEGAL_ELEMS_ORDERED)
    /\ answer = None
    /\ can = FALSE
    /\ dpc = "idle"
    /\ fault = NoFault
    /\ last = [op |-> "new"]
    /\ ran = <<>>

\* left, picked = held.pick_random_dice(num)
PickDice ==
    /\ \E num \in 0..(MaxHeld + 1) :
       \E r \in pick_random_dice(held, num) :
          last' = [op |-> "pick_random_dice", pool |-> held, num |-> num,
                   left |-> r.left, picked |-> r.picked]
    /\ UNCHANGED <<gs, fault, ran>>
    /\ UNCHANGED diceVars

\* left, picked = deck.pick_random_cards(num)
PickCards ==
    /\ \E num \in 0..(2 * NumCards + 1) :
       \E picked \in pick_random_cards(gs.deck, num) :
          last' = [op |-> "pick_random_cards", pool |-> gs.deck, num |-> num,
                   left |-> CardsSub(gs.deck, picked), picked |-> picked]
    /\ UNCHANGED <<gs, fault, ran>>
    /\ UNCHANGED diceVars

NextPick == PickDice \/ PickCards

SpecPick == InitPick /\ [][NextPick]_vars

\* the number of items of a dice or of cards
Size(items) == SumOver(items, DOMAIN items)

\* C19: a random pick of n items from a pool P returns (left, picked) with
\* picked of exactly min(n, size of P) items, left and picked both legal,
\* and left + picked equal to P kind by kind, whichever items are selected;
\* for pick_random_dice on dice and for the split of a deck.
PickIsPartition ==
    last.op \in {"pick_random_dice", "pick_random_cards"} =>
        /\ Size(last.picked) = Min(last.num, Size(last.pool))
        /\ \A k \in DOMAIN last.left : last.left[k] >= 0
        /\ \A k \in DOMAIN last.picked : last.picked[k] >= 0
        /\ DOMAIN last.left \cup DOMAIN last.picked \subseteq DOMAIN last.pool
        /\ \A k \in DOMAIN last.pool :
              Get(last.left, k) + Get(last.picked, k) = last.pool[k]

\* a pick of more dice than the pool holds has taken the whole pool of
\* several kinds
PickIsPartitionWitness ==
    /\ last.op = "pick_random_dice"
    /\ last.num > Size(last.pool)
    /\ Size(last.pool) = MaxHeld
    /\ Size(last.left) = 0
    /\ Cardinality({k \in DOMAIN last.picked : last.picked[k] > 0}) > 1

---------------------------------------------------------------------------
(* The End phase leaves for the Roll phase                                  *)

\* C20: in the step from the End phase to the Roll phase each player's hand
\* gains min(2, size of the player's deck) cards taken from the player's own
\* deck, so hand + deck of each player is the same multiset before and
\* after; both dice pools become empty and both tags become
\* PASSIVE_WAIT_PHASE.
EndToRollConservesCards ==
    [][(gs.phase = "End" /\ gs'.phase = "Roll") =>
        \A pid \in Pids :
            /\ num_cards(gs'.players[pid].hand_cards)
                 = num_cards(gs.players[pid].hand_cards)
                   + Min(2, num_cards(gs.players[pid].deck_cards))
            /\ \A c \in CardNames :
                  /\ gs'.players[pid].hand_cards[c] >= gs.players[pid].hand_cards[c]
                  /\ gs'.players[pid].deck_cards[c] >= 0
                  /\ gs'.players[pid].hand_cards[c] + gs'.players[pid].deck_cards[c]
                       = gs.players[pid].hand_cards[c] + gs.players[pid].deck_cards[c]
            /\ num_dice(gs'.players[pid].dices) = 0
            /\ gs'.players[pid].phase = "PASSIVE_WAIT_PHASE"]_vars

\* the Roll phase is entered: the first player has drawn two cards of
\* different names and keeps one in the deck, the second player has drawn
\* the only card of the deck
EndToRollConservesCardsWitness ==
    /\ gs.phase = "Roll"
    /\ last.op = "step"
    /\ "hand_cards" \in DOMAIN gs.players["P1"]
    /\ gs.players["P1"].hand_cards = [c \in CardNames |-> 1]
    /\ num_cards(gs.players["P1"].deck_cards) = NumCards - 1
    /\ num_cards(gs.players["P2"].hand_cards) = 1
    /\ num_cards(gs.players["P2"].deck_cards) = 0

---------------------------------------------------------------------------
(* The end of the game                                                      *)

\* GameState.game_end
game_end(g) == g.round > ROUND_LIMIT

\* GameState.get_winner: None past the round limit, else Player1
get_winner(g) == IF g.round > ROUND_LIMIT THEN NoPid ELSE "P1"

\* C21: when the game has reached the GameEnd phase because the round limit
\* was exceeded, game_end() is true and get_winner() is None.
RoundLimitEndsWithoutWinner ==
    [][(/\ gs.phase = "End" /\ BothTags(gs, "END_PHASE")
        /\ gs'.phase = "GameEnd")
       => (game_end(gs') /\ get_winner(gs') = NoPid)]_vars

---------------------------------------------------------------------------
(* GameStateFactory: dgisim/src/state/game_state.py                         *)
(* A factory is an object of its own: the pair (state, factory) keeps the   *)
(* GameState it was made from next to the fields the factory holds.         *)

\* GameState.factory: GameStateFactory.__init__ copies the five fields
GameState_factory(game_state) ==
    [state |-> game_state,
     factory |-> [phase |-> game_state.phase, round |-> game_state.round,
                  player1 |-> game_state.player1,
                  player2 |-> game_state.player2,
                  mode |-> game_state.mode]]

\* GameStateFactory.phase
GameStateFactory_phase(self, new_phase) ==
    [self EXCEPT !.factory.phase = new_phase]

\* GameStateFactory.round
GameStateFactory_round(self, new_round) ==
    [self EXCEPT !.factory.round = new_round]

\* GameStateFactory.mode
GameStateFactory_mode(self, new_mode) ==
    [self EXCEPT !.factory.mode = new_mode]

\* GameStateFactory.player
GameStateFactory_player(self, pid, new_player) ==
    IF pid = "P1" THEN [self EXCEPT !.factory.player1 = new_player]
    ELSE IF pid = "P2" THEN [self EXCEPT !.factory.player2 = new_player]
    ELSE Raise("player_id unknown")

\* a setter that writes the slot of pid itself
GameStateFactory_otherPlayerMut(self, pid, new_player) ==
    IF pid = "P1" THEN [self EXCEPT !.factory.player1 = new_player]
    ELSE IF pid = "P2" THEN [self EXCEPT !.factory.player2 = new_player]
    ELSE Raise("player_id unknown")

\* GameStateFactory.otherPlayer
GameStateFactory_otherPlayer(self, pid, new_player) ==
    IF pid = "P1" THEN [self EXCEPT !.factory.player2 = new_player]
    ELSE IF pid = "P2" THEN [self EXCEPT !.factory.player1 = new_player]
    ELSE Raise("player_id unknown")

\* GameStateFactory.build: the new GameState, next to the state the factory
\* was made from
GameStateFactory_build(self) ==
    [state |-> self.state,
     built |-> [phase |-> self.factory.phase, round |-> self.factory.round,
                mode |-> self.factory.mode,
                player1 |-> self.factory.player1,
                player2 |-> self.factory.player2]]

\* the player states handed to the factory
SomePlayers ==
    {[Player(<<Character(1, hp, <<>>, <<>>, <<>>)>>, from_empty(ActualElems),
             [c \in CardNames |-> 0])
      EXCEPT !.phase = tag] :
        hp \in {1, CharMaxHp}, tag \in {"PASSIVE_WAIT_PHASE", "ACTION_PHASE"}}

\* the phases, rounds and modes handed to the constructor and the factory
SomePhases == {"Roll", "Action", "End"}
SomeRounds == 0..1
SomeModes == {"DefaultMode", "AllOmniMode"}

\* a GameState as its constructor takes it
InitFactory ==
    /\ \E phase \in SomePhases, round \in SomeRounds,
          player1 \in SomePlayers, player2 \in SomePlayers :
          gs = [phase |-> phase, round |-> round, mode |-> "DefaultMode",
                player1 |-> player1, player2 |-> player2]
    /\ fault = NoFault
    /\ last = [op |-> "new"]
    /\ ran = <<>>
    /\ held = from_empty(ActualElems)
    /\ heldKeys = _LEGAL_ELEMS_ORDERED
    /\ requirement = from_empty(AbstractElems)
    /\ pureIter = Tail(_LEGAL_ELEMS_ORDERED)
    /\ answer = None
    /\ can = FALSE
    /\ dpc = "idle"

\* game_state = game_state.factory().player(pid, p).build()
BuildPlayer ==
    /\ \E pid \in Pids, p \in SomePlayers :
       \E r \in {GameStateFactory_build(
                    GameStateFactory_player(GameState_factory(gs), pid, p))} :
          /\ gs' = r.built
          /\ last' = [op |-> "player", pid |-> pid, new_player |-> p,
                      state |-> r.state]
    /\ UNCHANGED <<fault, ran>>
    /\ UNCHANGED diceVars

\* game_state = game_state.factory().otherPlayer(pid, p).build()
BuildOtherPlayer ==
    /\ \E pid \in Pids, p \in SomePlayers :
       \E r \in {GameStateFactory_build(
                    GameStateFactory_otherPlayer(GameState_factory(gs), pid, p))} :
          /\ gs' = r.built
          /\ last' = [op |-> "otherPlayer", pid |-> pid, new_player |-> p,
                      state |-> r.state]
    /\ UNCHANGED <<fault, ran>>
    /\ UNCHANGED diceVars

\* game_state = game_state.factory().phase(new_phase).build()
BuildPhase ==
    /\ \E new_phase \in SomePhases :
       \E r \in {GameStateFactory_build(
                    GameStateFactory_phase(GameState_factory(gs), new_phase))} :
          /\ gs' = r.built
          /\ last' = [op |-> "phase", new_phase |-> new_phase,
                      state |-> r.state]
    /\ UNCHANGED <<fault, ran>>
    /\ UNCHANGED diceVars

\* game_state = game_state.factory().round(new_round).build()
BuildRound ==
    /\ \E new_round \in SomeRounds :
       \E r \in {GameStateFactory_build(
                    GameStateFactory_round(GameState_factory(gs), new_round))} :
          /\ gs' = r.built
          /\ last' = [op |-> "round", new_round |-> new_round,
                      state |-> r.state]
    /\ UNCHANGED <<fault, ran>>
    /\ UNCHANGED diceVars

\* game_state = game_state.factory().mode(new_mode).build()
BuildMode ==
    /\ \E new_mode \in SomeModes :
       \E r \in {GameStateFactory_build(
                    GameStateFactory_mode(GameState_factory(gs), new_mode))} :
          /\ gs' = r.built
          /\ last' = [op |-> "mode", new_mode |-> new_mode,
                      state |-> r.state]
    /\ UNCHANGED <<fault, ran>>
    /\ UNCHANGED diceVars

NextFactory ==
    BuildPhase \/ BuildRound \/ BuildMode \/ BuildPlayer \/ BuildOtherPlayer

SpecFactory == InitFactory /\ [][NextFactory]_vars

\* the slot of a player in a GameState
Slot(pid) == IF pid = "P1" THEN "player1" ELSE "player2"

\* C22: a build through the factory changes only the named field: after
\* player(pid, p) the phase, the round, the mode and the other player's state
\* are those of the original state and the slot of pid holds p;
\* otherPlayer(pid, p) replaces only the opposite slot; the original state
\* has the same fields after the build as before it. The setters of phase,
\* round and mode likewise change their own field only.
FactoryChangesOnlyNamedField ==
    [][/\ last'.op \in {"player", "otherPlayer"} =>
            \E slot \in {IF last'.op = "player" THEN Slot(last'.pid)
                         ELSE Slot(other(last'.pid))} :
                /\ gs'[slot] = last'.new_player
                /\ \A f \in DOMAIN gs \ {slot} : gs'[f] = gs[f]
                /\ DOMAIN gs' = DOMAIN gs
                /\ last'.state = gs
       /\ last'.op \in {"phase", "round", "mode"} =>
            /\ gs'[last'.op] = IF last'.op = "phase" THEN last'.new_phase
                               ELSE IF last'.op = "round" THEN last'.new_round
                               ELSE last'.new_mode
            /\ \A f \in DOMAIN gs \ {last'.op} : gs'[f] = gs[f]
            /\ DOMAIN gs' = DOMAIN gs
            /\ last'.state = gs]_vars

\* otherPlayer has put a new player state into the slot of Player2 and
\* left a different state of Player1 as it was
FactoryChangesOnlyNamedFieldWitness ==
    /\ last.op = "otherPlayer" /\ last.pid = "P1"
    /\ "player2" \in DOMAIN gs
    /\ gs.player2 = last.new_player
    /\ gs.player1 # gs.player2
    /\ last.state.player2 # gs.player2

---------------------------------------------------------------------------
(* Reactions within one traversal                                           *)

\* the effects only a status's reaction puts on the stack
Produced(effect) ==
    effect.name \in {"RemoveCharacterStatusEffect", "RecoverHPEffect",
                     "EnergyRechargeEffect", "EnergyDrainEffect",
                     "DamageEffect", "RemoveDiceEffect", "AddStatusEffect",
                     "UpdateStatusEffect"}

\* the places of the stack that hold the trigger of a status of a traversal
\* still to be asked
PendingTriggers(es) ==
    {i \in 1..Len(es) : /\ es[i].name = "TriggerStatusEffect"
                        /\ es[i].target.zone = "CHARACTER"}

\* C23: the effects of the reactions of one all-status traversal are
\* batched: no effect produced by the reaction of an earlier status is
\* executed while a later status of the same traversal has yet to make its
\* reaction decision.
ReactionsAreBatched ==
    [][(/\ last'.op = "step" /\ last'.ret = "state"
        /\ Produced(last'.effect))
       => PendingTriggers(gs.effect_stack) = {}]_vars

---------------------------------------------------------------------------
(* The value threaded through a preprocessing pass                          *)

\* a pass that hands the value the source player's statuses returned on to
\* the opponent's statuses
Threaded(g, damage, pp_type) ==
    LET source_id == damage.source.pid
        first == _preprocessByAllStatuses(g, source_id, damage, pp_type)
    IN  _preprocessByAllStatuses(first.game_state, other(source_id),
                                 first.item, pp_type).item

\* the damage that enters the amount confirmation of an effect
Reactioned(g, effect) == _reaction_confirmation(_element_confirmation(g, effect))

\* C24: in a preprocessing pass of a DamageEffect one value is threaded
\* through the source player's statuses and then the opponent's, and the
\* damage finally applied reflects the transformations of both.
DamageThreadsBothPlayers ==
    [][(last'.op = "damage" /\ last'.ret = "state") =>
        /\ Confirmed(gs, last'.effect)
             = Threaded(Reactioned(gs, last'.effect).game_state,
                        Reactioned(gs, last'.effect).damage, "DmgAmount")
        /\ Struck(gs', last'.effect.source.pid).hp
             = Max(0, Struck(gs, last'.effect.source.pid).hp
                      - Threaded(Reactioned(gs, last'.effect).game_state,
                                 Reactioned(gs, last'.effect).damage,
                                 "DmgAmount").damage)]_vars

---------------------------------------------------------------------------
(* What basically_satisfy pays for an OMNI cost                             *)

\* the dice of a pure kind left after the pure costs are deducted, and the
\* dice of the kind in the answer beyond its pure cost
LeftOf(e) == held[e] - Min(held[e], requirement[e])
PaidOf(e) == answer.dice[e] - Min(held[e], requirement[e])

\* the OMNI tokens that cover the pure costs the held dice fall short of
PureShort == SumOver([e \in _PURE_ELEMS |->
                        requirement[e] - Min(held[e], requirement[e])],
                     _PURE_ELEMS)

\* an allocation was returned for a requirement with an OMNI cost and
\* without an ANY cost
OmniCostPaid ==
    /\ dpc = "done" /\ answer.some
    /\ requirement["OMNI"] > 0 /\ requirement["ANY"] = 0

\* the OMNI cost is paid from the kind e alone, the rest with OMNI tokens
PaysFrom(e) ==
    /\ PaidOf(e) = Min(LeftOf(e), requirement["OMNI"])
    /\ \A f \in _PURE_ELEMS \ {e} : PaidOf(f) = 0
    /\ answer.dice["OMNI"] = PureShort + requirement["OMNI"] - PaidOf(e)

\* C25 as stated: an OMNI cost of N is paid from the held kind with the
\* largest remaining count that is >= N when there is one, otherwise from the
\* kind with the largest remaining count, the shortfall in OMNI tokens.
OmniCostFromLargestKind ==
    OmniCostPaid =>
        IF \E e \in _PURE_ELEMS : LeftOf(e) >= requirement["OMNI"]
        THEN \E e \in _PURE_ELEMS :
                /\ LeftOf(e) >= requirement["OMNI"]
                /\ \A f \in _PURE_ELEMS : LeftOf(f) <= LeftOf(e)
                /\ PaysFrom(e)
        ELSE \E e \in _PURE_ELEMS :
                /\ \A f \in _PURE_ELEMS : LeftOf(f) <= LeftOf(e)
                /\ PaysFrom(e)

\* C25, amended: an OMNI cost of N is paid from a held kind with the
\* smallest remaining count that is >= N when there is one, otherwise from a
\* kind with the largest remaining count, the shortfall in OMNI tokens.
OmniCostFromSmallestSufficientKind ==
    OmniCostPaid =>
        IF \E e \in _PURE_ELEMS : LeftOf(e) >= requirement["OMNI"]
        THEN \E e \in _PURE_ELEMS :
                /\ LeftOf(e) >= requirement["OMNI"]
                /\ \A f \in _PURE_ELEMS :
                      LeftOf(f) >= requirement["OMNI"] => LeftOf(e) <= LeftOf(f)
                /\ PaysFrom(e)
        ELSE \E e \in _PURE_ELEMS :
                /\ \A f \in _PURE_ELEMS : LeftOf(f) <= LeftOf(e)
                /\ PaysFrom(e)

\* an OMNI cost of 1 was paid while one kind held two dice and another
\* one: the die came from the kind with one
OmniCostFromSmallestSufficientKindWitness ==
    /\ OmniCostPaid
    /\ requirement["OMNI"] = 1
    /\ \E e \in _PURE_ELEMS, f \in _PURE_ELEMS :
          /\ LeftOf(e) = 1 /\ LeftOf(f) = 2
          /\ PaidOf(e) = 1 /\ PaidOf(f) = 0

---------------------------------------------------------------------------
(* What basically_satisfy pays for an ANY cost                              *)

\* an allocation was returned for a requirement with an ANY cost and
\* without an OMNI cost
AnyCostPaid ==
    /\ dpc = "done" /\ answer.some
    /\ requirement["ANY"] > 0 /\ requirement["OMNI"] = 0

\* the OMNI tokens in the answer beyond those that cover the pure costs
OmniForAny == answer.dice["OMNI"] - PureShort

\* C26: an ANY cost is paid from the non-OMNI kinds in increasing order of
\* their remaining count: a kind pays only when every kind with fewer dice
\* left is exhausted, OMNI tokens pay only when every non-OMNI kind is
\* exhausted, and {OMNI: 3} against {ANY: 2} spends 2 OMNI tokens.
AnyCostFromSmallestPiles ==
    /\ AnyCostPaid =>
          /\ \A e \in _PURE_ELEMS : PaidOf(e) \in 0..LeftOf(e)
          /\ SumOver([e \in _PURE_ELEMS |-> PaidOf(e)], _PURE_ELEMS)
                + OmniForAny = requirement["ANY"]
          /\ \A e \in _PURE_ELEMS, f \in _PURE_ELEMS :
                (LeftOf(e) < LeftOf(f) /\ PaidOf(f) > 0)
                   => PaidOf(e) = LeftOf(e)
          /\ OmniForAny >= 0
          /\ OmniForAny > 0
                => \A e \in _PURE_ELEMS : PaidOf(e) = LeftOf(e)
    /\ (/\ dpc = "done"
        /\ held = [from_empty(ActualElems) EXCEPT !["OMNI"] = 3]
        /\ requirement = [from_empty(AbstractElems) EXCEPT !["ANY"] = 2])
          => /\ answer = Some([from_empty(ActualElems) EXCEPT !["OMNI"] = 2])
             /\ DiceSub(held, answer.dice)["OMNI"] = 1

\* an ANY cost of 2 was paid from a pool with a kind of one die and a kind of
\* two dice: one die came from each, the smaller pile being exhausted first
AnyCostFromSmallestPilesWitness ==
    /\ AnyCostPaid
    /\ requirement["ANY"] = 2
    /\ \E e \in _PURE_ELEMS, f \in _PURE_ELEMS :
          /\ held[e] = 1 /\ held[f] = 2
          /\ PaidOf(e) = 1 /\ PaidOf(f) = 1

---------------------------------------------------------------------------
(* The death-swap choice                                                    *)

\* a death-swap choice of pid that names a defeated character or the
\* character that is active already
IllegalDeathSwap(g, pid, action) ==
    /\ action.type = "DeathSwapAction"
    /\ \/ defeated(g.players[pid].characters[action.char_id])
       \/ action.char_id = g.players[pid].active_character_id

\* C27: step_action rejects a DeathSwapAction that names a defeated character
\* or the active character, and after an accepted death swap has been
\* executed the swapping player's active character is alive.
DeathSwapChoiceIsChecked ==
    [][/\ (last'.op = "step_action"
           /\ IllegalDeathSwap(gs, last'.pid, last'.action))
          => (last'.ret = "raised" /\ gs' = gs)
       /\ (last'.op = "step" /\ last'.ret = "state"
           /\ last'.effect.name = "SwapCharacterEffect")
          => ~defeated(get_active_character(
                          gs'.players[last'.effect.target.pid]))]_vars

---------------------------------------------------------------------------
(* The tags around a death swap                                             *)

\* C28: when the DeathSwapPhaseEndEffect of a death swap has been executed,
\* both players' phase tags are the tags they had immediately before the
\* death check that started the swap.
DeathSwapRestoresTags ==
    [][(/\ last'.op = "step" /\ last'.ret = "state"
        /\ last'.effect.name = "DeathSwapPhaseEndEffect")
       => /\ ran # <<>>
          /\ \A pid \in Pids : gs'.players[pid].phase = ran[Len(ran)][pid]]_vars

\* the first player's hit felled the active character of the second player,
\* who had ended the round; the second player swapped, and after the swap
\* the first player is acting again and the second has ended the round
DeathSwapRestoresTagsWitness ==
    /\ gs.phase = "Action"
    /\ last.op = "step" /\ last.ret = "state"
    /\ last.effect.name = "DeathSwapPhaseEndEffect"
    /\ last.effect.my_pid = "P2"
    /\ gs.players["P2"].active_character_id = 2
    /\ gs.players["P1"].phase = "ACTION_PHASE"
    /\ gs.players["P2"].phase = "END_PHASE"
    /\ ran = <<>>

---------------------------------------------------------------------------
(* basically_satisfy and the iteration order of _PURE_ELEMS                 *)

\* C29: the allocation basically_satisfy returns for the held dice and the
\* requirement is the same in every iteration order of the set of pure
\* kinds.
AllocationIgnoresIterationOrder ==
    dpc = "done" =>
        \A iter \in PureOrdersOf(held) :
            basically_satisfy(held, requirement, heldKeys, iter) = answer

---------------------------------------------------------------------------
(* The display order of the held dice                                       *)

\* ActualDice._LEGAL_ELEMS_ORDERED_DICT: the bigger the number, the higher
\* the priority
_LEGAL_ELEMS_ORDERED_DICT ==
    [elem \in ActualElems |->
        Len(_LEGAL_ELEMS_ORDERED)
          - (CHOOSE i \in 1..Len(_LEGAL_ELEMS_ORDERED) :
                _LEGAL_ELEMS_ORDERED[i] = elem)]

\* ActualDice._LEGAL_ELEMS_ORDERED_DICT_REV
_LEGAL_ELEMS_ORDERED_DICT_REV(priority) ==
    CHOOSE elem \in ActualElems : _LEGAL_ELEMS_ORDERED_DICT[elem] = priority

\* the order of Python tuples of three integers
TupleLess(a, b) ==
    \/ a[1] < b[1]
    \/ a[1] = b[1] /\ a[2] < b[2]
    \/ a[1] = b[1] /\ a[2] = b[2] /\ a[3] < b[3]

\* sorted(categories, reverse=True); equal tuples keep their order
SortedReverse(categories) ==
    LET n == Len(categories)
        Before(j, i) ==
            \/ TupleLess(categories[i], categories[j])
            \/ categories[j] = categories[i] /\ j < i
        Rank(i) == Cardinality({j \in 1..n : Before(j, i)}) + 1
    IN  [r \in 1..n |-> categories[CHOOSE i \in 1..n : Rank(i) = r]]

RECURSIVE Categories(_, _, _)
\* the generator of _init_ordered_dice, lines 332-340
Categories(self, character_elems, elems) ==
    IF elems = <<>> THEN <<>>
    ELSE LET elem == Head(elems)
             rest == Categories(self, character_elems, Tail(elems))
         IN  IF elem # "OMNI" /\ Get(self, elem) > 0
             THEN << << IF elem \in character_elems THEN 1 ELSE 0,
                        Get(self, elem),
                        _LEGAL_ELEMS_ORDERED_DICT[elem] >> >> \o rest
             ELSE rest

\* the listing sorted in ascending order
_init_ordered_diceMut(self, priority_elems, keys) ==
    LET sorted_categories ==
            Reverse(SortedReverse(Categories(self, priority_elems, keys)))
        omni == IF Get(self, "OMNI") > 0
                THEN << <<"OMNI", Get(self, "OMNI")>> >> ELSE <<>>
    IN  omni \o [i \in 1..Len(sorted_categories) |->
                   << _LEGAL_ELEMS_ORDERED_DICT_REV(sorted_categories[i][3]),
                      Get(self, _LEGAL_ELEMS_ORDERED_DICT_REV(sorted_categories[i][3])) >>]

\* ActualDice._init_ordered_dice: the items of the dict it builds, in
\* insertion order; priority_elems None is passed as the empty set
_init_ordered_dice(self, priority_elems, keys) ==
    LET sorted_categories ==
            SortedReverse(Categories(self, priority_elems, keys))
        omni == IF Get(self, "OMNI") > 0
                THEN << <<"OMNI", Get(self, "OMNI")>> >> ELSE <<>>
    IN  omni \o [i \in 1..Len(sorted_categories) |->
                   << _LEGAL_ELEMS_ORDERED_DICT_REV(sorted_categories[i][3]),
                      Get(self, _LEGAL_ELEMS_ORDERED_DICT_REV(sorted_categories[i][3])) >>]

\* no player state handed to dice_ordered
NoPlayerState == [some |-> FALSE, characters |-> <<>>]

\* Characters.get_alive_characters: the places of the characters not defeated
get_alive_characters(player_state) ==
    {i \in 1..Len(player_state.characters) :
        ~defeated(player_state.characters[i])}

\* ActualDice.dice_ordered / readonly_dice_ordered
dice_ordered(self, player_state, keys) ==
    _init_ordered_dice(
        self,
        IF player_state = NoPlayerState THEN {}
        ELSE {player_state.characters[i].element :
                 i \in get_alive_characters(player_state)},
        keys)

\* the player states handed in: none, or a CRYO character and a second
\* character, each alive or defeated
OrderPlayerStates ==
    {NoPlayerState} \cup
    {[some |-> TRUE,
      characters |-> << [element |-> "CRYO", hp |-> hp1],
                      [element |-> e2, hp |-> hp2] >>] :
        e2 \in {"PYRO", "ANEMO"}, hp1 \in 0..1, hp2 \in 0..1}

\* a pool held in any order of its kinds, and a player state or none
InitOrdered ==
    /\ held \in SmallHelds
    /\ heldKeys \in KeyOrdersOf(held)
    /\ gs \in {[phase |-> "NoGame", player_state |-> ps] : ps \in OrderPlayerStates}
    /\ requirement = from_empty(AbstractElems)
    /\ pureIter = Tail(_LEGAL_ELEMS_ORDERED)
    /\ answer = None
    /\ can = FALSE
    /\ dpc = "input"
    /\ fault = NoFault
    /\ last = [op |-> "new"]
    /\ ran = <<>>

\* ordered = held.dice_ordered(player_state)
CallDiceOrdered ==
    /\ dpc = "input"
    /\ last' = [op |-> "dice_ordered",
                ret |-> dice_ordered(held, gs.player_state, heldKeys)]
    /\ dpc' = "done"
    /\ UNCHANGED <<held, heldKeys, requirement, pureIter, answer, can>>
    /\ UNCHANGED <<gs, fault, ran>>

NextOrdered == CallDiceOrdered

SpecOrdered == InitOrdered /\ [][NextOrdered]_vars

\* the fixed priority of the kinds, highest first
KindPriority == <<"CRYO", "HYDRO", "PYRO", "ELECTRO", "GEO", "DENDRO", "ANEMO">>
KindRank(elem) == CHOOSE i \in 1..Len(KindPriority) : KindPriority[i] = elem

\* the elements of the alive characters of the player state handed in
AliveElems ==
    IF gs.player_state = NoPlayerState THEN {}
    ELSE {c.element : c \in {d \in Range(gs.player_state.characters) : d.hp > 0}}

\* the kind a comes before the kind b: an alive character has a and none
\* has b, or more dice of a are held, or as many and a has the priority
ComesBefore(a, b) ==
    LET fa == IF a \in AliveElems THEN 1 ELSE 0
        fb == IF b \in AliveElems THEN 1 ELSE 0
    IN  \/ fa > fb
        \/ fa = fb /\ held[a] > held[b]
        \/ fa = fb /\ held[a] = held[b] /\ KindRank(a) < KindRank(b)

\* C30: dice_ordered lists exactly the held kinds with a positive count,
\* each once with its held count, OMNI first when held, then the other
\* kinds in descending order of (an alive character has the element, count
\* held, priority CRYO > HYDRO > PYRO > ELECTRO > GEO > DENDRO > ANEMO).
DiceOrderedListing ==
    last.op = "dice_ordered" =>
        LET ret == last.ret IN
        /\ {ret[i][1] : i \in 1..Len(ret)} = {e \in ActualElems : held[e] > 0}
        /\ \A i \in 1..Len(ret), j \in 1..Len(ret) :
              ret[i][1] = ret[j][1] => i = j
        /\ \A i \in 1..Len(ret) : ret[i][2] = held[ret[i][1]]
        /\ \A i \in 1..Len(ret) : ret[i][1] = "OMNI" => i = 1
        /\ \A i \in 1..Len(ret), j \in 1..Len(ret) :
              (i < j /\ ret[i][1] # "OMNI") => ComesBefore(ret[i][1], ret[j][1])

\* two CRYO dice and one ANEMO die are held by a player whose CRYO
\* character is defeated and whose ANEMO character is alive: ANEMO is
\* listed before CRYO
DiceOrderedListingWitness ==
    /\ last.op = "dice_ordered"
    /\ gs.player_state # NoPlayerState
    /\ AliveElems = {"ANEMO"}
    /\ last.ret = << <<"ANEMO", 1>>, <<"CRYO", 2>> >>

---------------------------------------------------------------------------
(* The states EndPhase.step is called in                                    *)

\* a tag of the second or third case of step
Draining(tag) == tag \in {"ACTIVE_WAIT_PHASE", "ACTION_PHASE"}

\* C31: in every End-phase state in which nobody is waited for, the two
\* tags match one of the four cases of step, and when a tag is
\* ACTIVE_WAIT_PHASE or ACTION_PHASE the effect stack is not empty and its
\* front is not the sentinel, so the assertions of step hold.
StepFindsItsCase ==
    (gs.phase = "End" /\ fault = NoFault /\ waiting_for(gs) = NoPid) =>
        LET p1 == gs.players["P1"].phase
            p2 == gs.players["P2"].phase
        IN  /\ \/ BothTags(gs, "PASSIVE_WAIT_PHASE")
               \/ Draining(p1) \/ Draining(p2)
               \/ BothTags(gs, "END_PHASE")
            /\ (~BothTags(gs, "PASSIVE_WAIT_PHASE")
                /\ (Draining(p1) \/ Draining(p2)))
                  => /\ gs.effect_stack # <<>>
                     /\ ~SentinelAtFront(gs)

\* a death swap was accepted and its SwapCharacterEffect executed: a player
\* still holds the tag ACTION_PHASE, nobody is waited for and the end of the
\* swap is at the front of the stack
StepFindsItsCaseWitness ==
    /\ gs.phase = "End" /\ fault = NoFault
    /\ last.op = "step" /\ last.ret = "state"
    /\ last.effect.name = "SwapCharacterEffect"
    /\ waiting_for(gs) = NoPid
    /\ \E pid \in Pids : gs.players[pid].phase = "ACTION_PHASE"
    /\ gs.effect_stack # <<>>
    /\ Head(gs.effect_stack).name = "DeathSwapPhaseEndEffect"

---------------------------------------------------------------------------
(* The sentinel of the death swap                                           *)

RECURSIVE Sentinels(_)
\* the number of DeathSwapPhaseStartEffect on an effect stack
Sentinels(es) ==
    IF es = <<>> THEN 0
    ELSE (IF Head(es).name = "DeathSwapPhaseStartEffect" THEN 1 ELSE 0)
            + Sentinels(Tail(es))

\* C32: the interpreter never pops the sentinel DeathSwapPhaseStartEffect
\* for execution: a step executes another effect and removes no sentinel,
\* with the sentinel at the front of the stack the only call is step_action,
\* and a step_action removes at most one sentinel.
SentinelLeavesByAction ==
    [][gs.phase = "End" =>
        /\ last'.op = "step" =>
              /\ last'.effect.name # "DeathSwapPhaseStartEffect"
              /\ Sentinels(gs'.effect_stack) >= Sentinels(gs.effect_stack)
        /\ SentinelAtFront(gs) => last'.op = "step_action"
        /\ last'.op = "step_action" =>
              Sentinels(gs'.effect_stack) >= Sentinels(gs.effect_stack) - 1]_vars

\* the sentinel of the first player's swap has left the stack through that
\* player's DeathSwapAction, and no sentinel is left
SentinelLeavesByActionWitness ==
    /\ gs.phase = "End"
    /\ last.op = "step_action" /\ last.ret = "state"
    /\ last.pid = "P1"
    /\ last.action.type = "DeathSwapAction"
    /\ Sentinels(gs.effect_stack) = 0
    /\ \E i \in 1..Len(gs.effect_stack) :
          gs.effect_stack[i].name = "DeathSwapPhaseEndEffect"

---------------------------------------------------------------------------
(* The entry of the End phase                                               *)

\* C33: the entry logic of the End phase runs once: when
\* _initialize_end_phase has run, so that the tags are no longer both
\* PASSIVE_WAIT_PHASE, they are never both PASSIVE_WAIT_PHASE again while
\* the phase is End, and step enters _initialize_end_phase only from the
\* state the phase was entered in.
EndPhaseEntersOnce ==
    [][/\ (gs.phase = "End" /\ ~BothTags(gs, "PASSIVE_WAIT_PHASE"))
          => ~(gs'.phase = "End" /\ BothTags(gs', "PASSIVE_WAIT_PHASE"))
       /\ (gs.phase = "End" /\ BothTags(gs, "PASSIVE_WAIT_PHASE"))
          => (last.op = "new" /\ gs' = _initialize_end_phase(gs))]_vars

\* the active player's character fell while the stack drained and the swap
\* has ended: the active player waits actively again, the other passively
EndPhaseEntersOnceWitness ==
    /\ gs.phase = "End"
    /\ last.op = "step" /\ last.ret = "state"
    /\ last.effect.name = "DeathSwapPhaseEndEffect"
    /\ last.effect.my_pid = gs.active_player
    /\ gs.players[gs.active_player].phase = "ACTIVE_WAIT_PHASE"
    /\ gs.players[other(gs.active_player)].phase = "PASSIVE_WAIT_PHASE"
    /\ gs.effect_stack # <<>>

---------------------------------------------------------------------------
(* The active characters after a death check                                *)

\* C34: when a death check that found nobody defeated has been executed, or
\* the death swap a death check started has ended, and the game has not
\* ended, neither player's active character is defeated.
NoDefeatedActiveCharacter ==
    (/\ gs.phase = "Action"
     /\ last.op = "step" /\ last.ret = "state"
     /\ \/ last.effect.name = "DeathSwapPhaseEndEffect"
        \/ last.effect.name = "DeathCheckCheckerEffect" /\ ~SentinelAtFront(gs))
    => \A pid \in Pids : ~defeated(get_active_character(gs.players[pid]))

---------------------------------------------------------------------------
(* What the HP write of a DamageEffect keeps                                *)

\* the game state after the three preprocessing passes of an effect
Passed(g, effect) ==
    _damage_confirmation(
        _reaction_confirmation(_element_confirmation(g, effect))).game_state

\* C35: the target of an executed DamageEffect differs from the target as
\* it stands after the three preprocessing passes only in its HP.
DamageKeepsEarlierChanges ==
    [][(last'.op = "damage" /\ last'.ret = "state") =>
        Struck(gs', last'.effect.source.pid)
          = [Struck(Passed(gs, last'.effect), last'.effect.source.pid)
             EXCEPT !.hp = Struck(gs', last'.effect.source.pid).hp]]_vars


\* a hit has felled a target that holds an aura and a Shield: the target
\* still holds both
DamageKeepsEarlierChangesWitness ==
    /\ last.op = "damage" /\ last.ret = "state"
    /\ last.effect.damage > 0
    /\ Struck(gs, last.effect.source.pid).hp = 0
    /\ Struck(gs, last.effect.source.pid).elemental_aura # <<>>
    /\ Struck(gs, last.effect.source.pid).character_statuses # <<>>

---------------------------------------------------------------------------
(* A status that changes itself while preprocessing                         *)

\* C36: when the Shield of the target changes itself while preprocessing a
\* damage amount, the game state that the preprocessing pass returns holds
\* the changed Shield in place of the old one; when it returns itself
\* unchanged the pass returns the state unchanged.
StatusChangeIsKept ==
    [][(last'.op = "damage" /\ last'.ret = "state") =>
        LET pid == last'.effect.source.pid
            shield == find(Struck(gs, pid).character_statuses, "Shield")
            pp == preprocess(shield, last'.effect, "DmgAmount")
            pass == _preprocessByAllStatuses(gs, other(pid), last'.effect,
                                             "DmgAmount")
        IN  shield # NoStatus =>
              /\ pp.status # shield =>
                    find(Struck(pass.game_state, pid).character_statuses,
                         "Shield") = pp.status
              /\ pp.status = shield => pass.game_state = gs]_vars

---------------------------------------------------------------------------
(* The equality of two collections of statuses                              *)

\* C37: a comparison of a collection with another object returns, and it
\* returns true exactly when the other object is a collection that holds
\* the same statuses in the same order, whether or not the two are the same
\* object.
StatusesEqualityDecides ==
    last.op = "eq" =>
        last.ret = IF /\ last.other.kind = "Statuses"
                      /\ last.other.statuses = gs.statuses
                   THEN "True" ELSE "False"


---------------------------------------------------------------------------
(* AbstractDice: lowering a requirement (dice.py, AbstractDice) *)

\* Dice.validify: self when legal, else only the legal keys with a count > 0
validify(dice, legal) ==
    IF is_legal(dice, legal) THEN dice
    ELSE [k \in {e \in DOMAIN dice \cap legal : dice[e] > 0} |-> dice[k]]

\* AbstractDice.cost_less_any: num is not read
cost_less_any(self, num) ==
    validify(DiceSub(self, [k \in {"ANY"} |-> 1]), AbstractElems)

\* AbstractDice.can_cost_less_elem
can_cost_less_elem(self, elem) ==
    IF elem # "None" THEN Get(self, elem) > 0 \/ Get(self, "ANY") > 0
    ELSE (\E e \in _PURE_ELEMS : Get(self, e) > 0) \/ Get(self, "ANY") > 0

\* AbstractDice.cost_less_elem: without elem the first kind of
\* ActualDice._LEGAL_ELEMS_ORDERED the requirement asks for is lowered; the
\* dict literal that is subtracted keeps the later value of a key written
\* twice, so with elem = ANY only any_less_amount is taken off
cost_less_elem(self, num, elem) ==
    LET asked == {i \in 1..Len(_LEGAL_ELEMS_ORDERED) :
                    Get(self, _LEGAL_ELEMS_ORDERED[i]) > 0}
        first == IF asked = {} THEN "None"
                 ELSE _LEGAL_ELEMS_ORDERED[CHOOSE i \in asked :
                                             \A j \in asked : i <= j]
        chosen == IF elem = "None" THEN first ELSE elem
    IN  IF chosen = "None" THEN self
        ELSE LET elem_less_amount == Min(Get(self, chosen), num)
                 any_less_amount == Max(0, num - elem_less_amount)
                 ret_val == validify(
                     DiceSub(self, [k \in {chosen, "ANY"} |->
                                      IF k = "ANY" THEN any_less_amount
                                      ELSE elem_less_amount]),
                     AbstractElems)
             IN  IF is_legal(ret_val, AbstractElems) THEN ret_val
                 ELSE Raise("AssertionError")

InitCost ==
    /\ requirement \in SmallReqs
    /\ held = from_empty(ActualElems)
    /\ heldKeys = _LEGAL_ELEMS_ORDERED
    /\ pureIter = Tail(_LEGAL_ELEMS_ORDERED)
    /\ answer = None
    /\ can = FALSE
    /\ dpc = "idle"
    /\ gs = [phase |-> "NoGame"]
    /\ fault = NoFault
    /\ last = [op |-> "new"]
    /\ ran = <<>>

\* ret = requirement.cost_less_any(num)
CallCostLessAny ==
    /\ \E num \in 0..(MaxReq + 1) :
          last' = [op |-> "cost_less_any", num |-> num, elem |-> "None",
                   raised |-> FALSE, ret |-> cost_less_any(requirement, num)]
    /\ UNCHANGED <<gs, fault, ran>>
    /\ UNCHANGED diceVars

\* ret = requirement.cost_less_elem(num, elem)
CallCostLessElem ==
    /\ \E num \in 0..(MaxReq + 1) : \E elem \in AbstractElems \cup {"None"} :
       \E r \in {cost_less_elem(requirement, num, elem)} :
          last' = [op |-> "cost_less_elem", num |-> num, elem |-> elem,
                   raised |-> Raised(r),
                   ret |-> IF Raised(r) THEN from_empty(AbstractElems) ELSE r]
    /\ UNCHANGED <<gs, fault, ran>>
    /\ UNCHANGED diceVars

NextCost == CallCostLessAny \/ CallCostLessElem

SpecCost == InitCost /\ [][NextCost]_vars

\* C38: cost_less_any(num) lowers the ANY count of the requirement by
\* min(num, ANY count), leaves every other kind's count as it was and
\* returns a legal requirement.
CostLessAnyLowersByNum ==
    last.op = "cost_less_any" =>
        /\ Get(last.ret, "ANY") =
               Get(requirement, "ANY") - Min(last.num, Get(requirement, "ANY"))
        /\ \A k \in AbstractElems \ {"ANY"} :
               Get(last.ret, k) = Get(requirement, k)
        /\ is_legal(last.ret, AbstractElems)

\* C39: cost_less_elem(num, elem) returns a legal requirement whose total is
\* the old total minus at most num, and when can_cost_less_elem(elem) is
\* false every kind keeps its count; without elem an OMNI cost is kept
\* (elem a pure kind or None).
CostLessElemAgreesWithCan ==
    (last.op = "cost_less_elem" /\ last.elem \in _PURE_ELEMS \cup {"None"}) =>
        /\ ~last.raised
        /\ is_legal(last.ret, AbstractElems)
        /\ num_dice(last.ret) <= num_dice(requirement)
        /\ num_dice(last.ret) >= num_dice(requirement) - last.num
        /\ ~can_cost_less_elem(requirement, last.elem) =>
               \A k \in AbstractElems : Get(last.ret, k) = Get(requirement, k)
        /\ last.elem = "None" =>
               Get(last.ret, "OMNI") = Get(requirement, "OMNI")

====
